---- MODULE Spec2Model ----
(***************************************************************************)
(* A model of cbarrick/ripl: the persistent hash-array-mapped trie         *)
(* (collections/clone_map.rs), the operator table (syntax/operators.rs),   *)
(* the string interner (syntax/namespace.rs), and the lexer and parser     *)
(* (syntax/lexer.rs, syntax/parser.rs).                                    *)
(*                                                                         *)
(* Each subsystem has its own specification over the shared variables:     *)
(*   Spec        the CloneMap: two handles, insert/remove/get/clear/clone  *)
(*   SpecOps     the OpTable: new/from, insert, and the lookups            *)
(*   SpecParser  the Parser over a Lexer: next and errs on one input       *)
(*   SpecNames   the NameSpace: name and len                               *)
(*   SpecLexer   the Lexer: report_space and next on one input             *)
(*   SpecFactor  CloneMap::with_branch_factor for every factor             *)
(***************************************************************************)
EXTENDS Integers, Sequences, FiniteSets, TLC

VARIABLES
    heap,   \* CloneMap: the Arc allocations, id -> CNode / Branch
    maps,   \* CloneMap: the live handles, name -> [branch_power, seed, root]
    ref,    \* CloneMap: a reference map per handle (history)
    last,   \* CloneMap: the last call, what it returned and what the reference returned
    nops,   \* CloneMap: the number of mutating calls made so far
    table,  \* OpTable: the Vec<Op> of the table
    opcall, \* OpTable: the last constructor or insert call
    opn,    \* OpTable: the number of operators handed to the table so far
    parser, \* Parser: the Parser struct, its Lexer included
    input,  \* Parser: the text the reader was opened on (history)
    yielded,\* Parser: what each call of next returned, in order (history)
    drained,\* Parser: the errors handed out by errs so far (history)
    strings,\* NameSpace: the HashSet<Box<str>> of the interner
    issued, \* NameSpace: each call of name, what it returned and len() after it (history)
    lx,     \* Lexer: the Lexer struct
    src,    \* Lexer: the text the reader was opened on (history)
    emitted \* Lexer: what each call of next returned and where the lexer stood (history)

mapVars == <<heap, maps, ref, last, nops>>

opVars == <<table, opcall, opn>>

parserVars == <<parser, input, yielded, drained>>

nsVars == <<strings, issued>>

lexVars == <<lx, src, emitted>>

vars == <<heap, maps, ref, last, nops, table, opcall, opn,
          parser, input, yielded, drained, strings, issued, lx, src, emitted>>

(***************************************************************************)
(* Generic helpers                                                         *)
(***************************************************************************)

\* Option<T>: None is the empty sequence, Some(v) the singleton.
None == <<>>

Some(v) == <<v>>

\* Vec::push(x), whatever pos is.
VecPush(vec, pos, x) == Append(vec, x)

\* Vec::insert(pos, x), 0-based pos.
VecInsert(vec, pos, x) ==
    SubSeq(vec, 1, pos) \o <<x>> \o SubSeq(vec, pos + 1, Len(vec))

\* Vec::remove(pos), 0-based pos.
VecRemove(vec, pos) ==
    SubSeq(vec, 1, pos) \o SubSeq(vec, pos + 2, Len(vec))

RECURSIVE CountOnes(_)
\* u64::count_ones
CountOnes(n) == IF n = 0 THEN 0 ELSE (n % 2) + CountOnes(n \div 2)

\* u32::next_power_of_two: the least power of two >= n (1 for n = 0).
NextPowerOfTwo(n) ==
    CHOOSE p \in {2 ^ e : e \in 0..7} :
        /\ p >= n
        /\ \A q \in {2 ^ e : e \in 0..7} : q >= n => p <= q

\* u32::trailing_zeros of a power of two.
TrailingZeros(p) == CHOOSE e \in 0..7 : 2 ^ e = p

(***************************************************************************)
(* CloneMap (src/collections/clone_map.rs)                                 *)
(***************************************************************************)

\* Bounds of the CloneMap model.
HashBits == 3
BranchFactor == 4
MaxNest == 2
MaxOps == 4

\* The keys and values the calls are made with.
Keys == {1, 2, 3}

Vals == {1, 2}

MapNames == {"m", "m2"}

\* The seeds a hasher may be built with.  Under seed 1 keys 1 and 2 share
\* their full hash, and the hash of key 3 differs from it in the top bit
\* alone, so that they share every chunk but the last; under seed 2 the
\* keys have distinct hashes.
Seeds == {1, 2}

\* CloneMap::hash: the hash of a key under the hasher of a map (seed).
Hash(seed, key) ==
    IF seed = 1
    THEN ((2 ^ (HashBits - 1)) * ((key - 1) \div 2)) % (2 ^ HashBits)
    ELSE (key - 1) % (2 ^ HashBits)

\* The hashers under which no two keys of the model share a full hash.
InjectiveSeeds == {s \in Seeds : \A j, k \in Keys : Hash(s, j) = Hash(s, k) => j = k}

\* CNode::new
NewCNode == [tag |-> "CNode", bitmap |-> 0, branches |-> <<>>]

\* Store::new wrapped in Branch::S
NewStore(hash, key, val) == [tag |-> "S", hash |-> hash, key |-> key, val |-> val]

\* The least free allocation.
Alloc(h) ==
    CHOOSE n \in 1..(Cardinality(DOMAIN h) + 1) :
        /\ n \notin DOMAIN h
        /\ \A m \in 1..(n - 1) : m \in DOMAIN h

\* Whether allocation n holds an Arc to id.
RefersTo(node, id) ==
    IF node.tag = "M" THEN node.root = id
    ELSE IF node.tag = "S" THEN FALSE
    ELSE \E i \in 1..Len(node.branches) : node.branches[i] = id

\* Arc::strong_count: the handles and allocations holding an Arc to id.
StrongCount(h, mp, id) ==
    Cardinality({m \in DOMAIN mp : mp[m].root = id})
        + Cardinality({n \in DOMAIN h : RefersTo(h[n], id)})

\* A make_mut that hands out the shared allocation itself.
ArcMakeMutShared(h, mp, id) == [heap |-> h, id |-> id]

\* A make_mut that clones the value whoever holds it.
ArcMakeMutAlways(h, mp, id) ==
    LET n == Alloc(h) IN [heap |-> h @@ (n :> h[id]), id |-> n]

\* Arc::make_mut: the allocation itself when we are its only holder, else a
\* fresh allocation holding a clone of the value.  (The caller's Arc is made
\* to point to the result.)
ArcMakeMut(h, mp, id) ==
    IF StrongCount(h, mp, id) = 1
    THEN [heap |-> h, id |-> id]
    ELSE LET n == Alloc(h) IN [heap |-> h @@ (n :> h[id]), id |-> n]

\* CNode::flagpos, with the bitmap bit of the flag tested as well.
\* A shift by level >= the hash width overflows.
FlagPos(bitmap, hash, level, w) ==
    LET index == (hash \div (2 ^ level)) % (2 ^ w)
        flag  == 2 ^ index
    IN  [flag |-> flag,
         pos |-> CountOnes(bitmap % flag),
         set |-> (bitmap \div flag) % 2 = 1,
         overflow |-> level >= HashBits]

RECURSIVE CNodeGet(_, _, _, _, _, _)
\* CNode::get on the CNode in allocation id, and CloneMap::get for M branches.
CNodeGet(h, id, hash, key, level, w) ==
    LET node == h[id]
        fp   == FlagPos(node.bitmap, hash, level, w)
    IN  IF ~fp.set THEN None
        ELSE LET branch == h[node.branches[fp.pos + 1]] IN
             CASE branch.tag = "M" ->
                    CNodeGet(h, branch.root, Hash(branch.seed, key), key, 0, branch.branch_power)
               [] branch.tag = "C" ->
                    CNodeGet(h, node.branches[fp.pos + 1], hash, key, level + w, w)
               [] OTHER ->
                    IF branch.key = key THEN Some(branch.val) ELSE None

\* CloneMap::get on handle m.
MapGet(h, mp, m, key) ==
    CNodeGet(h, mp[m].root, Hash(mp[m].seed, key), key, 0, mp[m].branch_power)

\* mem::replace(&mut s.val, val) returning the value just written.
ReplaceValNew(s, val) == [store |-> [s EXCEPT !.val = val], old |-> val]

\* mem::replace(&mut s.val, val): the store with the new value, and the old one.
ReplaceVal(s, val) == [store |-> [s EXCEPT !.val = val], old |-> s.val]

\* CloneMap::with_branch_factor(n) (for n > 64 it panics): the root is a
\* fresh Arc<CNode>, the seed and the hasher are drawn at random.
WithBranchFactor(n, seed, root) ==
    [branch_power |-> TrailingZeros(NextPowerOfTwo(n)), seed |-> seed, root |-> root]

\* The seeds rand::random() may yield for a map nested below `nest` maps made
\* by the same insert: the innermost draw separates the keys.
NewSeeds(nest) == IF nest + 1 >= MaxNest THEN InjectiveSeeds ELSE Seeds

RECURSIVE CNodeInsert(_, _, _, _, _, _, _, _, _)
\* CNode::insert on the CNode in allocation id (owned exclusively), with
\* CloneMap::insert inlined for M branches.  The result is the set of
\* outcomes, one per seed a nested map may draw.
CNodeInsert(h, mp, id, hash, key, val, level, w, nest) ==
    LET node == h[id]
        fp   == FlagPos(node.bitmap, hash, level, w)
    IN
    IF fp.overflow THEN {[heap |-> h, ret |-> None, panic |-> TRUE]}
    ELSE IF ~fp.set THEN
        \* Simple case: insert if we have a vacancy.
        LET s == Alloc(h) IN
        {[heap |-> [(h @@ (s :> NewStore(hash, key, val)))
                     EXCEPT ![id].branches = VecInsert(node.branches, fp.pos, s),
                            ![id].bitmap = node.bitmap + fp.flag],
          ret |-> None, panic |-> FALSE]}
    ELSE
        LET mm  == ArcMakeMut(h, mp, node.branches[fp.pos + 1])
            bid == mm.id
            h1  == [mm.heap EXCEPT ![id].branches[fp.pos + 1] = bid]
            branch == h1[bid]
        IN
        CASE branch.tag = "M" ->
               \* CloneMap::insert on the nested map
               LET rm == ArcMakeMut(h1, mp, branch.root)
                   h2 == [rm.heap EXCEPT ![bid].root = rm.id]
               IN  CNodeInsert(h2, mp, rm.id, Hash(branch.seed, key), key, val,
                               0, branch.branch_power, nest)
          [] branch.tag = "C" ->
               CNodeInsert(h1, mp, bid, hash, key, val, level + w, w, nest)
          [] OTHER ->
               IF key = branch.key THEN
                   LET r == ReplaceVal(branch, val) IN
                   {[heap |-> [h1 EXCEPT ![bid] = r.store], ret |-> Some(r.old),
                     panic |-> FALSE]}
               ELSE IF hash = branch.hash THEN
                   \* full collision: split into an M branch
                   LET root == Alloc(h1)
                       new(seed) == WithBranchFactor(2 ^ w, seed, root)
                       h2(seed) == [(h1 @@ (root :> NewCNode))
                                     EXCEPT ![bid] = [tag |-> "M"] @@ new(seed)]
                   IN  UNION { UNION {
                         {[heap |-> i2.heap, ret |-> None, panic |-> i1.panic \/ i2.panic] :
                            i2 \in CNodeInsert(i1.heap, mp, root, Hash(seed, key), key, val,
                                               0, new(seed).branch_power, nest + 1)} :
                         i1 \in CNodeInsert(h2(seed), mp, root, Hash(seed, branch.key),
                                            branch.key, branch.val,
                                            0, new(seed).branch_power, nest + 1)} :
                         seed \in NewSeeds(nest)}
               ELSE
                   \* partial collision: split into a C branch
                   LET h2 == [h1 EXCEPT ![bid] = [tag |-> "C", bitmap |-> 0, branches |-> <<>>]]
                   IN  UNION {
                         {[heap |-> i2.heap, ret |-> None, panic |-> i1.panic \/ i2.panic] :
                            i2 \in CNodeInsert(i1.heap, mp, bid, hash, key, val,
                                               level + w, w, nest)} :
                         i1 \in CNodeInsert(h2, mp, bid, branch.hash, branch.key, branch.val,
                                            level + w, w, nest)}

RECURSIVE CNodeRemove(_, _, _, _, _, _, _)
\* CNode::remove on the CNode in allocation id (owned exclusively), with
\* CloneMap::remove inlined for M branches.
CNodeRemove(h, mp, id, hash, key, level, w) ==
    LET node == h[id]
        fp   == FlagPos(node.bitmap, hash, level, w)
    IN
    IF fp.overflow THEN [heap |-> h, ret |-> None, panic |-> TRUE]
    ELSE IF ~fp.set THEN [heap |-> h, ret |-> None, panic |-> FALSE]
    ELSE
        LET mm  == ArcMakeMut(h, mp, node.branches[fp.pos + 1])
            bid == mm.id
            h1  == [mm.heap EXCEPT ![id].branches[fp.pos + 1] = bid]
            branch == h1[bid]
        IN
        CASE branch.tag = "M" ->
               LET rm == ArcMakeMut(h1, mp, branch.root)
                   h2 == [rm.heap EXCEPT ![bid].root = rm.id]
               IN  CNodeRemove(h2, mp, rm.id, Hash(branch.seed, key), key,
                               0, branch.branch_power)
          [] branch.tag = "C" ->
               CNodeRemove(h1, mp, bid, hash, key, level + w, w)
          [] OTHER ->
               IF branch.key # key THEN [heap |-> h1, ret |-> None, panic |-> FALSE]
               ELSE
                   \* Remove the S branch; Arc::try_unwrap needs the only Arc.
                   LET h2 == [h1 EXCEPT ![id].branches = VecRemove(h1[id].branches, fp.pos)]
                   IN  IF StrongCount(h2, mp, bid) = 0
                       THEN [heap |-> [n \in DOMAIN h2 \ {bid} |->
                                         IF n = id
                                         THEN [h2[n] EXCEPT !.bitmap = node.bitmap - fp.flag]
                                         ELSE h2[n]],
                             ret |-> Some(branch.val), panic |-> FALSE]
                       ELSE [heap |-> h2, ret |-> None, panic |-> TRUE]

RECURSIVE Reach(_, _, _)
\* The allocations some handle keeps alive: the rest has been dropped.
Reach(h, seen, frontier) ==
    IF frontier = {} THEN seen
    ELSE LET next == {n \in DOMAIN h : \E f \in frontier : RefersTo(h[f], n)}
         IN  Reach(h, seen \cup frontier, next \ (seen \cup frontier))

\* Dropping an Arc frees what no handle reaches any more.
Drop(h, mp) ==
    LET live == Reach(h, {}, {mp[m].root : m \in DOMAIN mp})
    IN  [n \in live |-> h[n]]

RECURSIVE Visit(_, _, _)
\* The live allocations in the order a walk from the handles meets them.
Visit(h, stack, order) ==
    IF stack = <<>> THEN order
    ELSE LET id == Head(stack) IN
         IF \E i \in 1..Len(order) : order[i] = id
         THEN Visit(h, Tail(stack), order)
         ELSE LET kids == IF h[id].tag = "M" THEN <<h[id].root>>
                          ELSE IF h[id].tag = "S" THEN <<>>
                          ELSE h[id].branches
              IN  Visit(h, kids \o Tail(stack), Append(order, id))

\* Addresses carry no meaning: after each call the live allocations are
\* renamed in walk order, so that equal object graphs are equal states.
Settle(h, mp) ==
    LET live  == Drop(h, mp)
        names == <<"m", "m2">>
        order == Visit(live, SelectSeq([i \in 1..2 |-> IF names[i] \in DOMAIN mp
                                                       THEN mp[names[i]].root ELSE 0],
                                       LAMBDA r : r # 0), <<>>)
        to(id) == CHOOSE i \in 1..Len(order) : order[i] = id
        ren(node) == IF node.tag = "M" THEN [node EXCEPT !.root = to(node.root)]
                     ELSE IF node.tag = "S" THEN node
                     ELSE [node EXCEPT !.branches = [i \in 1..Len(node.branches) |->
                                                        to(node.branches[i])]]
    IN  [heap |-> [n \in 1..Len(order) |-> ren(live[order[n]])],
         maps |-> [m \in DOMAIN mp |-> [mp[m] EXCEPT !.root = to(mp[m].root)]]]

(***************************************************************************)
(* The CloneMap operations as actions.                                     *)
(***************************************************************************)

\* The reference: a total function from keys to Option<V>.
EmptyRef == [k \in Keys |-> None]

\* The record of a call.
Call(op, m, ret, exp, panic) ==
    [op |-> op, map |-> m, ret |-> ret, exp |-> exp, panic |-> panic,
     shared |-> StrongCount(heap, maps, maps[m].root) > 1]

\* let mut m = CloneMap::with_branch_factor(n)
InitMap ==
    /\ \E seed \in Seeds :
          maps = [m \in {"m"} |-> WithBranchFactor(BranchFactor, seed, 1)]
    /\ heap = [n \in {1} |-> NewCNode]
    /\ ref = [m \in {"m"} |-> EmptyRef]
    /\ last = [op |-> "new", map |-> "m", ret |-> None, exp |-> None,
               panic |-> FALSE, shared |-> FALSE]
    /\ nops = 0

\* m.insert(key, val)
Insert(m, key, val) ==
    LET rm == ArcMakeMut(heap, maps, maps[m].root)
        mp == [maps EXCEPT ![m].root = rm.id]
    IN  \E r \in CNodeInsert(rm.heap, mp, rm.id, Hash(mp[m].seed, key), key, val,
                             0, mp[m].branch_power, 0) :
        LET st == Settle(r.heap, mp) IN
        /\ nops < MaxOps
        /\ nops' = nops + 1
        /\ maps' = st.maps
        /\ heap' = st.heap
        /\ ref' = [ref EXCEPT ![m][key] = Some(val)]
        /\ last' = Call("insert", m, r.ret, ref[m][key], r.panic)

\* m.remove(&key)
Remove(m, key) ==
    LET rm == ArcMakeMut(heap, maps, maps[m].root)
        mp == [maps EXCEPT ![m].root = rm.id]
        r  == CNodeRemove(rm.heap, mp, rm.id, Hash(mp[m].seed, key), key,
                          0, mp[m].branch_power)
        st == Settle(r.heap, mp)
    IN  /\ nops < MaxOps
        /\ nops' = nops + 1
        /\ maps' = st.maps
        /\ heap' = st.heap
        /\ ref' = [ref EXCEPT ![m][key] = None]
        /\ last' = Call("remove", m, r.ret, ref[m][key], r.panic)

\* m.get(&key): it borrows the map immutably and changes nothing; what it
\* returns is MapGet(heap, maps, m, key), a function of the state.
Get(m, key) ==
    /\ MapGet(heap, maps, m, key) \in {None} \cup {Some(v) : v \in Vals}
    /\ UNCHANGED mapVars

\* m.clear()
Clear(m) ==
    LET root == Alloc(heap)
        st   == Settle(heap @@ (root :> NewCNode), [maps EXCEPT ![m].root = root])
    IN  /\ nops < MaxOps
        /\ nops' = nops + 1
        /\ maps' = st.maps
        /\ heap' = st.heap
        /\ ref' = [ref EXCEPT ![m] = EmptyRef]
        /\ last' = Call("clear", m, None, None, FALSE)

\* b = a.clone()  (derive(Clone): the fields are cloned, the root Arc shared)
Clone(a, b) ==
    LET st == Settle(heap, [m \in DOMAIN maps \cup {b} |->
                               IF m = b THEN maps[a] ELSE maps[m]])
    IN  /\ nops < MaxOps
        /\ nops' = nops + 1
        /\ maps' = st.maps
        /\ heap' = st.heap
        /\ ref' = [m \in DOMAIN st.maps |-> IF m = b THEN ref[a] ELSE ref[m]]
        /\ last' = [op |-> "clone", map |-> b, ret |-> None, exp |-> None,
                    panic |-> FALSE, shared |-> FALSE]

DoInsert ==
    /\ \E m \in DOMAIN maps, key \in Keys, val \in Vals : Insert(m, key, val)
    /\ UNCHANGED <<opVars, parserVars, nsVars, lexVars>>

DoRemove ==
    /\ \E m \in DOMAIN maps, key \in Keys : Remove(m, key)
    /\ UNCHANGED <<opVars, parserVars, nsVars, lexVars>>

DoGet ==
    /\ \E m \in DOMAIN maps, key \in Keys : Get(m, key)
    /\ UNCHANGED <<opVars, parserVars, nsVars, lexVars>>

DoClear ==
    /\ \E m \in DOMAIN maps : Clear(m)
    /\ UNCHANGED <<opVars, parserVars, nsVars, lexVars>>

DoClone ==
    /\ \E a \in DOMAIN maps : \E b \in MapNames \ {a} : Clone(a, b)
    /\ UNCHANGED <<opVars, parserVars, nsVars, lexVars>>

\* No parser is in use.
NoParser ==
    /\ parser = [state |-> "none"]
    /\ input = ""
    /\ yielded = <<>>
    /\ drained = <<>>

\* No operator table is in use.
NoOpTable ==
    /\ table = <<>>
    /\ opcall = [op |-> "none"]
    /\ opn = 0

\* No NameSpace is in use.
NoNameSpace ==
    /\ strings = {}
    /\ issued = <<>>

\* No lexer is in use apart from the parser's.
NoLexer ==
    /\ lx = [state |-> "none"]
    /\ src = ""
    /\ emitted = <<>>

Init == InitMap /\ NoOpTable /\ NoParser /\ NoNameSpace /\ NoLexer

Next == DoInsert \/ DoRemove \/ DoGet \/ DoClear \/ DoClone

Spec == Init /\ [][Next]_vars

(***************************************************************************)
(* CloneMap: properties                                                    *)
(***************************************************************************)

\* C1: every call on a CloneMap returns what the reference map returns:
\* insert the previous value or None, remove the removed value or None, get
\* (of any key, in any state reached) the current value or None, after
\* clear every key is absent; and no call panics.
C1_RefinesReferenceMap ==
    /\ ~last.panic
    /\ last.ret = last.exp
    /\ \A m \in DOMAIN maps : \A k \in Keys : MapGet(heap, maps, m, k) = ref[m][k]
    /\ last.op = "clear" => \A k \in Keys : MapGet(heap, maps, last.map, k) = None

\* A remove has just returned a value from a trie that holds both a nested
\* map (keys with equal full hashes) and a C branch (keys sharing a chunk).
C1_Witness ==
    /\ last.op = "remove"
    /\ last.ret # None
    /\ \E n \in DOMAIN heap : heap[n].tag = "M"
    /\ \E n \in DOMAIN heap : heap[n].tag = "C"

\* C2: once a map has been cloned, a mutation (insert, remove, clear) of one
\* handle leaves what get returns on every other handle unchanged, for every
\* key.
C2_CloneIsolation ==
    [][\A m \in DOMAIN maps : \A k \in Keys :
          m # last'.map => MapGet(heap', maps', m, k) = MapGet(heap, maps, m, k)]_vars

\* A handle whose root was shared with its clone has been mutated, and the
\* two handles now disagree on some key.
C2_Witness ==
    /\ last.op \in {"insert", "remove", "clear"}
    /\ last.shared
    /\ DOMAIN maps = MapNames
    /\ \E k \in Keys : MapGet(heap, maps, "m", k) # MapGet(heap, maps, "m2", k)

(***************************************************************************)
(* Names (src/syntax/namespace.rs)                                         *)
(***************************************************************************)

\* The printable ASCII characters in byte order: ' ' (32) to '_' (95), and
\* 'a' (97) to '~' (126).
AsciiLow == " !\"#$%&'()*+,-./0123456789:;<=>?@ABCDEFGHIJKLMNOPQRSTUVWXYZ[\\]^_"

AsciiHigh == "abcdefghijklmnopqrstuvwxyz{|}~"

\* The bytes of the one-character strings.
Bytes ==
    [c \in {SubSeq(AsciiLow, i, i) : i \in 1..Len(AsciiLow)} |->
        31 + (CHOOSE i \in 1..Len(AsciiLow) : SubSeq(AsciiLow, i, i) = c)]
    @@ [c \in {SubSeq(AsciiHigh, i, i) : i \in 1..Len(AsciiHigh)} |->
        96 + (CHOOSE i \in 1..Len(AsciiHigh) : SubSeq(AsciiHigh, i, i) = c)]

\* The byte of a one-character string.
Byte(c) == Bytes[c]

RECURSIVE StrCmp(_, _)
\* str::cmp: the bytewise lexicographic order of two strings.
StrCmp(a, b) ==
    IF Len(a) = 0 \/ Len(b) = 0
    THEN IF Len(a) < Len(b) THEN "Less"
         ELSE IF Len(a) > Len(b) THEN "Greater" ELSE "Equal"
    ELSE LET x == Byte(SubSeq(a, 1, 1))
             y == Byte(SubSeq(b, 1, 1))
         IN  IF x < y THEN "Less"
             ELSE IF x > y THEN "Greater"
             ELSE StrCmp(SubSeq(a, 2, Len(a)), SubSeq(b, 2, Len(b)))

\* Ord for Name: names are ordered as the strings they stand for.  (Names of
\* one NameSpace are equal exactly when their strings are.)
NameCmp(a, b) == StrCmp(a, b)

\* Ord for u32
IntCmp(a, b) == IF a < b THEN "Less" ELSE IF a > b THEN "Greater" ELSE "Equal"

(***************************************************************************)
(* Operators (src/syntax/operators.rs)                                     *)
(***************************************************************************)

\* enum Op: the associativity, the precedence and the name.
Op(kind, prec, name) == [kind |-> kind, prec |-> prec, name |-> name]

OpKinds == {"XF", "YF", "XFX", "XFY", "YFX", "FY", "FX"}

\* Op::op_type
OpType(op) ==
    IF op.kind \in {"FX", "FY"} THEN "Prefix"
    ELSE IF op.kind \in {"XFX", "XFY", "YFX"} THEN "Infix"
    ELSE "Postfix"

\* derive(PartialOrd, Ord) for OpType: the order of declaration.
OpTypeCmp(a, b) ==
    LET rank(t) == IF t = "Prefix" THEN 0 ELSE IF t = "Infix" THEN 1 ELSE 2
    IN  IntCmp(rank(a), rank(b))

\* Ord for Op: by name, then by type, then by precedence.
OpCmp(a, b) ==
    IF a.name # b.name THEN NameCmp(a.name, b.name)
    ELSE IF OpType(a) # OpType(b) THEN OpTypeCmp(OpType(a), OpType(b))
    ELSE IntCmp(a.prec, b.prec)

\* [T]::binary_search on a sorted slice: Ok(i) for an element equal to the
\* target, else Err(i) with i the place where it keeps the slice sorted.
BinarySearch(t, target) ==
    LET eq == {i \in 1..Len(t) : OpCmp(t[i], target) = "Equal"}
    IN  IF eq # {}
        THEN [ok |-> TRUE, i |-> (CHOOSE i \in eq : TRUE) - 1]
        ELSE [ok |-> FALSE,
              i |-> Cardinality({i \in 1..Len(t) : OpCmp(t[i], target) = "Less"})]

\* Vec::push in place of the sorted insert.
OpTablePush(t, op) == Append(t, op)

\* OpTable::insert
OpTableInsert(t, op) ==
    LET r == BinarySearch(t, op)
    IN  IF r.ok THEN [t EXCEPT ![r.i + 1] = op] ELSE VecInsert(t, r.i, op)

\* A loop of get that leaves after one operator.
OpTableGetOne(t, name, j) ==
    IF j < Len(t) /\ t[j + 1].name = name THEN j + 1 ELSE j

RECURSIVE OpTableGetEnd(_, _, _)
\* The loop of OpTable::get: the first j >= i with self[j] not named name.
OpTableGetEnd(t, name, j) ==
    IF j < Len(t) /\ t[j + 1].name = name THEN OpTableGetEnd(t, name, j + 1) ELSE j

\* OpTable::get: the slice of the operators named name.
OpTableGet(t, name) ==
    LET i == BinarySearch(t, Op("FX", 0, name)).i
        j == OpTableGetEnd(t, name, i)
    IN  SubSeq(t, i + 1, j)

\* Iterator::find: the first element of s among those at the indices hits
\* (the ones the predicate accepts), if any.
Find(s, hits) ==
    IF hits = {} THEN None
    ELSE Some(s[CHOOSE i \in hits : \A j \in hits : i <= j])

\* OpTable::get_prefix
GetPrefix(t, name, prec) ==
    LET s == OpTableGet(t, name)
    IN  Find(s, {i \in 1..Len(s) : OpType(s[i]) = "Prefix" /\ s[i].prec <= prec})

\* OpTable::get_infix
GetInfix(t, name, prec) ==
    LET s == OpTableGet(t, name)
    IN  Find(s, {i \in 1..Len(s) : OpType(s[i]) = "Infix" /\ s[i].prec <= prec})

\* OpTable::get_postfix
GetPostfix(t, name, prec) ==
    LET s == OpTableGet(t, name)
    IN  Find(s, {i \in 1..Len(s) : OpType(s[i]) = "Postfix" /\ s[i].prec <= prec})

\* A get_compatible that lets the operator equal its left operand whatever
\* its associativity.
GetCompatibleLoose(t, name, lhs_prec, max_prec) ==
    LET s == OpTableGet(t, name)
    IN  Find(s, {i \in 1..Len(s) :
                    /\ OpType(s[i]) # "Prefix"
                    /\ lhs_prec <= s[i].prec /\ s[i].prec <= max_prec})

\* OpTable::get_compatible
GetCompatible(t, name, lhs_prec, max_prec) ==
    LET s == OpTableGet(t, name)
        ok(op) ==
            LET prec == op.prec
                y == lhs_prec <= prec /\ prec <= max_prec
                x == lhs_prec < prec /\ prec <= max_prec
            IN  \/ op.kind \in {"YFX", "YF"} /\ y
                \/ op.kind \in {"XFX", "XFY", "XF"} /\ x
    IN  Find(s, {i \in 1..Len(s) : ok(s[i])})

\* Vec::sort under Ord for Op: the sort is stable, so an element goes
\* behind the smaller ones and behind the equal ones that came before it.
SortOps(vec) ==
    LET before(i) ==
            {j \in 1..Len(vec) :
                \/ OpCmp(vec[j], vec[i]) = "Less"
                \/ OpCmp(vec[j], vec[i]) = "Equal" /\ j < i}
    IN  [p \in 1..Len(vec) |->
            vec[CHOOSE i \in 1..Len(vec) : Cardinality(before(i)) = p - 1]]

RECURSIVE FromLoop(_, _)
\* The loop of OpTable::from on a non-empty sorted vec: of neighbours with
\* the same type and name the first is removed.
FromLoop(vec, i) ==
    IF i < Len(vec) - 1
    THEN IF OpType(vec[i + 1]) = OpType(vec[i + 2]) /\ vec[i + 1].name = vec[i + 2].name
         THEN FromLoop(VecRemove(vec, i), i)
         ELSE FromLoop(vec, i + 1)
    ELSE vec

\* OpTable::from(vec).  On an empty vec `vec.len() - 1` overflows: a panic in
\* a checked build, and in an unchecked one the index vec[0] that follows
\* panics.
OpTableFrom(vec) ==
    IF Len(vec) = 0
    THEN [table |-> <<>>, panic |-> TRUE]
    ELSE [table |-> FromLoop(SortOps(vec), 0), panic |-> FALSE]

(***************************************************************************)
(* The OpTable operations as actions.                                      *)
(***************************************************************************)

\* Bounds of the OpTable model: the length of a vec handed to from, and the
\* number of operators handed to the table altogether.
MaxVec == 2
MaxOpCount == 3

\* The names, precedences and operators the calls are made with.
OpNames == {"=<", "=="}

OpPrecs == {0, 1}

QueryPrecs == {0, 1, 2}

OpUniverse == {Op(k, p, n) : k \in OpKinds, p \in OpPrecs, n \in OpNames}

\* No CloneMap is in use.
NoCloneMap ==
    /\ heap = <<>>
    /\ maps = <<>>
    /\ ref = <<>>
    /\ last = [op |-> "none"]
    /\ nops = 0

\* let mut ops = OpTable::new()
OpTableNew ==
    /\ table = <<>>
    /\ opcall = [op |-> "new", panic |-> FALSE, pos |-> 0]
    /\ opn = 0

\* let mut ops = OpTable::from(vec)
FromVec(vec) ==
    LET r == OpTableFrom(vec)
    IN  /\ table = r.table
        /\ opcall = [op |-> "from", panic |-> r.panic, pos |-> 0]
        /\ opn = Len(vec)

\* ops.insert(op)
InsertOp(op) ==
    LET r == BinarySearch(table, op)
    IN  /\ ~opcall.panic
        /\ opn < MaxOpCount
        /\ table' = OpTableInsert(table, op)
        /\ opcall' = [op |-> "insert", panic |-> FALSE, pos |-> r.i]
        /\ opn' = opn + 1

\* The lookups borrow the table immutably and change nothing; what they
\* return is a function of the table and the arguments.
DoGetPrefix ==
    /\ ~opcall.panic
    /\ \E name \in OpNames, prec \in QueryPrecs :
          Len(GetPrefix(table, name, prec)) <= 1
    /\ UNCHANGED vars

DoGetInfix ==
    /\ ~opcall.panic
    /\ \E name \in OpNames, prec \in QueryPrecs :
          Len(GetInfix(table, name, prec)) <= 1
    /\ UNCHANGED vars

DoGetPostfix ==
    /\ ~opcall.panic
    /\ \E name \in OpNames, prec \in QueryPrecs :
          Len(GetPostfix(table, name, prec)) <= 1
    /\ UNCHANGED vars

DoGetCompatible ==
    /\ ~opcall.panic
    /\ \E name \in OpNames, lhs_prec \in QueryPrecs, max_prec \in QueryPrecs :
          Len(GetCompatible(table, name, lhs_prec, max_prec)) <= 1
    /\ UNCHANGED vars

\* ops.get(name)
DoOpGet ==
    /\ ~opcall.panic
    /\ \E name \in OpNames : Len(OpTableGet(table, name)) <= Len(table)
    /\ UNCHANGED vars

DoInsertOp ==
    /\ \E op \in OpUniverse : InsertOp(op)
    /\ UNCHANGED <<mapVars, parserVars, nsVars, lexVars>>

InitOps ==
    /\ NoCloneMap
    /\ NoParser
    /\ NoNameSpace
    /\ NoLexer
    /\ \/ OpTableNew
       \/ \E n \in 0..MaxVec : \E vec \in [1..n -> OpUniverse] : FromVec(vec)

NextOps == DoInsertOp \/ DoOpGet \/ DoGetPrefix \/ DoGetInfix \/ DoGetPostfix \/ DoGetCompatible

SpecOps == InitOps /\ [][NextOps]_vars

(***************************************************************************)
(* OpTable: properties                                                     *)
(***************************************************************************)

\* C8: for every table, name, lhs_prec and max_prec, get_compatible returns
\* the first operator of that name in table order that is YFX or YF with
\* lhs_prec <= prec <= max_prec, or XFX, XFY or XF with
\* lhs_prec < prec <= max_prec; never a prefix operator; and None when no
\* entry qualifies.
C8_GetCompatible ==
    \A name \in OpNames, lhs_prec \in QueryPrecs, max_prec \in QueryPrecs :
        LET qualifies(op) ==
                /\ op.name = name
                /\ \/ /\ op.kind \in {"YFX", "YF"}
                      /\ lhs_prec <= op.prec /\ op.prec <= max_prec
                   \/ /\ op.kind \in {"XFX", "XFY", "XF"}
                      /\ lhs_prec < op.prec /\ op.prec <= max_prec
            hits == {i \in 1..Len(table) : qualifies(table[i])}
            got  == GetCompatible(table, name, lhs_prec, max_prec)
        IN  /\ hits = {} => got = None
            /\ hits # {} => got = Some(table[CHOOSE i \in hits : \A j \in hits : i <= j])
            /\ got # None => got[1].kind \notin {"FX", "FY"}

\* Some lookup passes over a prefix operator and over an infix operator of
\* the name that does not qualify, and returns a later entry.
C8_Witness ==
    \E name \in OpNames, lhs_prec \in QueryPrecs, max_prec \in QueryPrecs :
        \E i, j, k \in 1..Len(table) :
            /\ i < j /\ j < k
            /\ table[i].name = name /\ OpType(table[i]) = "Prefix"
            /\ table[j].name = name /\ OpType(table[j]) = "Infix"
            /\ GetCompatible(table, name, lhs_prec, max_prec) = Some(table[k])

\* C9: after any sequence of insert calls, and after from on any list of
\* operators, the table holds at most one operator for each (name, role)
\* pair.
C9_OneOpPerNameAndRole ==
    \A i, j \in 1..Len(table) :
        (table[i].name = table[j].name /\ OpType(table[i]) = OpType(table[j])) => i = j

\* C10: after any sequence of insert calls the entries are in strictly
\* ascending order by name (lexicographic), then role (Prefix < Infix <
\* Postfix), then precedence.
C10_StrictlyAscending ==
    \A i \in 1..(Len(table) - 1) :
        LET a == table[i]
            b == table[i + 1]
            role(op) == IF op.kind \in {"FX", "FY"} THEN 0
                        ELSE IF op.kind \in {"XFX", "XFY", "YFX"} THEN 1 ELSE 2
        IN  \/ NameCmp(a.name, b.name) = "Less"
            \/ a.name = b.name /\ role(a) < role(b)
            \/ a.name = b.name /\ role(a) = role(b) /\ a.prec < b.prec

\* The third of three inserts has put its operator between the other two,
\* whose names differ.
C10_Witness ==
    /\ opcall.op = "insert"
    /\ opn = 3
    /\ Len(table) = 3
    /\ opcall.pos = 1
    /\ table[1].name # table[3].name

\* C11: once insert(op) has returned, the slice get(op.name) contains op;
\* and in every reachable table, for every name, get(name) is the sequence
\* of the table entries of that name, in table order: every one of them and
\* no entry of another name.
C11_GetByName ==
    /\ opcall.op = "insert" =>
          LET op == table[opcall.pos + 1]
              got == OpTableGet(table, op.name)
          IN  \E i \in 1..Len(got) : got[i] = op
    /\ \A name \in OpNames :
          LET Named(op) == op.name = name
          IN  OpTableGet(table, name) = SelectSeq(table, Named)

\* An insert has put its operator behind a prefix operator of precedence 0
\* with its name, the entry the search of get hits, and the table holds an
\* operator of another name.
C11_Witness ==
    /\ opcall.op = "insert"
    /\ opcall.pos >= 1
    /\ \E i \in 1..Len(table) :
          /\ i < opcall.pos + 1
          /\ table[i].name = table[opcall.pos + 1].name
          /\ OpType(table[i]) = "Prefix" /\ table[i].prec = 0
    /\ \E k \in 1..Len(table) : table[k].name # table[opcall.pos + 1].name

(***************************************************************************)
(* CloneMap: the trie's bitmaps and its sharing                            *)
(***************************************************************************)

RECURSIVE KeysBelow(_, _)
\* The keys stored at or below an allocation.
KeysBelow(h, id) ==
    LET node == h[id]
    IN  CASE node.tag = "S" -> {node.key}
          [] node.tag = "M" -> KeysBelow(h, node.root)
          [] OTHER -> UNION {KeysBelow(h, node.branches[j]) : j \in 1..Len(node.branches)}

RECURSIVE BitmapHolds(_, _, _, _, _)
\* The CNode in allocation id, at depth level of a trie of branch power w
\* hashed under seed, and every CNode below it: the bitmap has as many bits
\* set as the node has branches, and the branch of a set bit i is the one
\* at popcount(bitmap & (2^i - 1)): what is stored below that position has
\* hash index i at this level.
BitmapHolds(h, id, seed, level, w) ==
    LET node == h[id]
        indices == {i \in 0..(2 ^ w - 1) : (node.bitmap \div (2 ^ i)) % 2 = 1}
        pos(i) == CountOnes(node.bitmap % (2 ^ i))
        Below(i, bid) ==
            /\ \A key \in KeysBelow(h, bid) :
                  FlagPos(node.bitmap, Hash(seed, key), level, w).flag = 2 ^ i
            /\ CASE h[bid].tag = "C" -> BitmapHolds(h, bid, seed, level + w, w)
                 [] h[bid].tag = "M" ->
                      BitmapHolds(h, h[bid].root, h[bid].seed, 0, h[bid].branch_power)
                 [] OTHER -> h[bid].hash = Hash(seed, h[bid].key)
    IN  /\ node.bitmap < 2 ^ (2 ^ w)
        /\ CountOnes(node.bitmap) = Len(node.branches)
        /\ \A i \in indices :
              /\ pos(i) < Len(node.branches)
              /\ Below(i, node.branches[pos(i) + 1])

\* C23: in every state insert, remove, clear and clone reach, every CNode
\* of every map has as many bitmap bits set as it has branches, the branch
\* for hash index i is at position popcount(bitmap & (2^i - 1)), and remove
\* has not reached its unreachable!() arm.
C23_BitmapMatchesBranches ==
    /\ \A m \in DOMAIN maps :
          BitmapHolds(heap, maps[m].root, maps[m].seed, 0, maps[m].branch_power)
    /\ last.op = "remove" => ~last.panic

\* A remove has just taken a key out of a C branch of a map that has a
\* clone, and a CNode still holds two branches.
C23_Witness ==
    /\ last.op = "remove"
    /\ last.ret # None
    /\ Cardinality(DOMAIN maps) = 2
    /\ \E n \in DOMAIN heap : heap[n].tag = "C" /\ Len(heap[n].branches) = 1
    /\ \E n \in DOMAIN heap : heap[n].tag \in {"C", "CNode"} /\ Len(heap[n].branches) = 2

RECURSIVE Path(_, _, _, _, _, _)
\* The allocations on the way from the CNode in allocation id to the slot
\* of the key: the nodes CNode::insert and CNode::remove descend through,
\* the branch found in the slot included.
Path(h, id, hash, key, level, w) ==
    LET node == h[id]
        fp   == FlagPos(node.bitmap, hash, level, w)
        Via(bid) ==
            CASE h[bid].tag = "M" ->
                   {bid} \cup Path(h, h[bid].root, Hash(h[bid].seed, key), key,
                                   0, h[bid].branch_power)
              [] h[bid].tag = "C" -> Path(h, bid, hash, key, level + w, w)
              [] OTHER -> {bid}
    IN  IF fp.overflow \/ ~fp.set THEN {id}
        ELSE {id} \cup Via(node.branches[fp.pos + 1])

\* The allocations a handle holds, directly or through others.
HeldBy(h, mp, m) == Reach(h, {}, {mp[m].root})

\* The allocations the handles other than m hold.
HeldByOthers(h, mp, m) == UNION {HeldBy(h, mp, o) : o \in DOMAIN mp \ {m}}

\* m.insert(key, val) as far as the heap goes: the heaps and handles it may
\* leave, before the allocations are renamed.
InsertOutcomes(m, key, val) ==
    LET rm == ArcMakeMut(heap, maps, maps[m].root)
        mp == [maps EXCEPT ![m].root = rm.id]
    IN  {[heap |-> r.heap, maps |-> mp, ret |-> r.ret] :
            r \in CNodeInsert(rm.heap, mp, rm.id, Hash(mp[m].seed, key), key, val,
                              0, mp[m].branch_power, 0)}

\* m.remove(&key) likewise.
RemoveOutcome(m, key) ==
    LET rm == ArcMakeMut(heap, maps, maps[m].root)
        mp == [maps EXCEPT ![m].root = rm.id]
        r  == CNodeRemove(rm.heap, mp, rm.id, Hash(mp[m].seed, key), key,
                          0, mp[m].branch_power)
    IN  [heap |-> r.heap, maps |-> mp, ret |-> r.ret]

\* What a mutation of handle m along path may do to the allocations: those
\* the other handles hold are left as they are; those of m off the path
\* are still the same allocations of m, unchanged; those on the path that m
\* alone holds are still allocations of m (written in place), but for the
\* store a remove takes out.
CopiesPathOnly(m, path, out, removed) ==
    LET others == HeldByOthers(heap, maps, m)
        before == HeldBy(heap, maps, m)
        after  == HeldBy(out.heap, out.maps, m)
    IN  /\ \A n \in others : n \in DOMAIN out.heap /\ out.heap[n] = heap[n]
        /\ HeldByOthers(out.heap, out.maps, m) = others
        /\ \A n \in before \ path : n \in after /\ out.heap[n] = heap[n]
        /\ \A n \in path \ others : n \in after \/ (removed /\ heap[n].tag = "S")
        /\ \A n \in path \cap others : n \notin after
        /\ removed =>
              Cardinality(after \ DOMAIN heap) \in
                  {Cardinality(path \cap others), Cardinality(path \cap others) - 1}

\* The path of a key in handle m.
PathOf(m, key) ==
    Path(heap, maps[m].root, Hash(maps[m].seed, key), key, 0, maps[m].branch_power)

\* C24: an insert or a remove on a map copies only nodes on the path from
\* the root to the slot of the key: every node off the path stays the same
\* node, shared with the clone where it was shared; the clone's nodes are
\* not written; and a path node the map alone holds is written in place.
C24_PathCopying ==
    \A m \in DOMAIN maps, key \in Keys :
        /\ \A val \in Vals : \A out \in InsertOutcomes(m, key, val) :
              CopiesPathOnly(m, PathOf(m, key), out, FALSE)
        /\ CopiesPathOnly(m, PathOf(m, key), RemoveOutcome(m, key), TRUE)

\* An insert or a remove has been made on a handle whose root was shared
\* with its clone, and afterwards the roots differ while a node below them
\* is still held by both.
C24_Witness ==
    /\ last.op \in {"insert", "remove"}
    /\ last.shared
    /\ DOMAIN maps = MapNames
    /\ maps["m"].root # maps["m2"].root
    /\ HeldBy(heap, maps, "m") \cap HeldBy(heap, maps, "m2") # {}
    /\ \E n \in HeldBy(heap, maps, "m") \ HeldBy(heap, maps, "m2") : heap[n].tag = "C"

(***************************************************************************)
(* CloneMap::with_branch_factor as a function of its argument             *)
(***************************************************************************)

\* Bound of the model: the largest branching factor asked for.
MaxFactor == 66

\* The largest factor with_branch_factor accepts.
FactorLimit == 64

\* let m = CloneMap::with_branch_factor(n): the call panics for a factor
\* above the limit, and else builds the map on a new, empty root.
DoWithBranchFactor ==
    /\ last.op = "none"
    /\ \E n \in 0..MaxFactor, seed \in Seeds :
          IF n > FactorLimit
          THEN /\ last' = [op |-> "with_branch_factor", n |-> n, panic |-> TRUE]
               /\ UNCHANGED <<maps, heap>>
          ELSE /\ last' = [op |-> "with_branch_factor", n |-> n, panic |-> FALSE]
               /\ maps' = [m \in {"m"} |-> WithBranchFactor(n, seed, 1)]
               /\ heap' = [id \in {1} |-> NewCNode]
    /\ UNCHANGED <<ref, nops, opVars, parserVars, nsVars, lexVars>>

\* The hash index CNode::flagpos takes at a level of the built map, for
\* every hash of HashBits bits: the node's bitmap is read, nothing changes.
DoFlagPos ==
    /\ last.op = "with_branch_factor"
    /\ ~last.panic
    /\ \E hash \in 0..(2 ^ HashBits - 1), level \in 0..(HashBits - 1) :
          FlagPos(heap[maps["m"].root].bitmap, hash, level, maps["m"].branch_power).pos = 0
    /\ UNCHANGED vars

InitFactor ==
    /\ NoCloneMap
    /\ NoOpTable
    /\ NoParser
    /\ NoNameSpace
    /\ NoLexer

NextFactor == DoWithBranchFactor \/ DoFlagPos

SpecFactor == InitFactor /\ [][NextFactor]_vars

\* A call of with_branch_factor has returned a map.
Built == last.op = "with_branch_factor" /\ ~last.panic

\* C22: with_branch_factor(n) panics for n > 64, and for every n from 0 to
\* 64 the branch power w of the map it builds satisfies 1 <= w <= 6.
C22_BranchPower ==
    /\ last.op = "with_branch_factor" => (last.panic <=> last.n > 64)
    /\ Built => maps["m"].branch_power \in 1..6

\* What with_branch_factor does build: w is the least power with 2^w >= n,
\* between 0 and 6, and it is 0 for the factors 0 and 1, for which a trie
\* level takes no bit of the hash.
BranchPowerFromZero ==
    /\ last.op = "with_branch_factor" => (last.panic <=> last.n > 64)
    /\ Built =>
          LET w == maps["m"].branch_power
          IN  /\ w \in 0..6
              /\ 2 ^ w >= last.n
              /\ w >= 1 => 2 ^ (w - 1) < last.n
              /\ w = 0 <=> last.n <= 1
              /\ w = 0 =>
                    \A hash \in 0..(2 ^ HashBits - 1), level \in 0..(HashBits - 1) :
                        FlagPos(0, hash, level, w).flag = 1

(***************************************************************************)
(* NameSpace (src/syntax/namespace.rs)                                     *)
(***************************************************************************)

\* Bounds of the NameSpace model: the number of calls of name on one
\* NameSpace, and the number of heap addresses the allocator hands out.
MaxNames == 4
MaxAddr == 4

\* The strings name is called with: those of the tests, one that differs
\* from another in case only, a proper prefix of another, and the empty one.
Toks == {"foo", "bar", "Foo", "fo", ""}

\* The address of a Box<str> of no bytes: nothing is allocated for it.
Dangling == 1

\* The addresses of the allocations.
Addrs == (Dangling + 1)..(Dangling + MaxAddr)

\* into_boxed_str at the address the allocator chose: the bytes of the
\* string, as they are.
Boxed(tok, addr) == [str |-> tok, addr |-> IF tok = "" THEN Dangling ELSE addr]

\* Name::from(&str): the pointer to the str, its address and its length.
\* The derived PartialEq of Name compares the two.
NameFrom(box) == [ptr |-> box.addr, len |-> Len(box.str)]

\* Name::as_str on a name of the set
AsStr(set, name) ==
    (CHOOSE b \in set : NameFrom(b) = name).str

\* The addresses no box of the set lives at.
FreeAddrs(set) == Addrs \ {b.addr : b \in set}

\* A name that boxes its token without looking it up.
NameSpaceNameFresh(set, tok, addr) ==
    [strings |-> set \cup {Boxed(tok, addr)}, name |-> NameFrom(Boxed(tok, addr))]

\* NameSpace::name(tok), addr being where a new box would be allocated:
\* the box of the set whose bytes equal the token's, else a new box.
NameSpaceName(set, tok, addr) ==
    LET found == {b \in set : b.str = tok}
    IN  IF found # {}
        THEN [strings |-> set, name |-> NameFrom(CHOOSE b \in found : TRUE)]
        ELSE [strings |-> set \cup {Boxed(tok, addr)}, name |-> NameFrom(Boxed(tok, addr))]

\* NameSpace::len
NameSpaceLen(set) == Cardinality(set)

\* let ns = NameSpace::new()
NameSpaceNew ==
    /\ strings = {}
    /\ issued = <<>>

\* let n = ns.name(tok), and what ns.len() is after it
DoName ==
    /\ Len(issued) < MaxNames
    /\ \E tok \in Toks, addr \in FreeAddrs(strings) :
          LET r == NameSpaceName(strings, tok, addr)
          IN  /\ strings' = r.strings
              /\ issued' = Append(issued, [tok |-> tok, name |-> r.name,
                                           len |-> NameSpaceLen(r.strings)])
    /\ UNCHANGED <<mapVars, opVars, parserVars, lexVars>>

\* ns.len(): it borrows the set and changes nothing.
DoLen ==
    /\ NameSpaceLen(strings) \in 0..MaxNames
    /\ UNCHANGED vars

InitNames == NoCloneMap /\ NoOpTable /\ NoParser /\ NoLexer /\ NameSpaceNew

NextNames == DoName \/ DoLen

SpecNames == InitNames /\ [][NextNames]_vars

(***************************************************************************)
(* NameSpace: properties                                                   *)
(***************************************************************************)

\* The distinct strings among the first n calls of name.
Interned(n) == {issued[k].tok : k \in 1..n}

\* C12: of the names one NameSpace has issued, two are equal exactly when
\* the strings they were issued for are equal byte for byte; len() is the
\* number of distinct strings interned so far; and len() never decreases
\* from one call to the next.
C12_Interning ==
    /\ \A i, j \in 1..Len(issued) :
          (issued[i].name = issued[j].name) <=> (issued[i].tok = issued[j].tok)
    /\ \A i \in 1..Len(issued) : issued[i].len = Cardinality(Interned(i))
    /\ NameSpaceLen(strings) = Cardinality(Interned(Len(issued)))
    /\ \A i \in 1..(Len(issued) - 1) : issued[i].len <= issued[i + 1].len

\* A string has been interned twice, with the empty string and a string
\* that differs from it in case only in between.
C12_Witness ==
    /\ Len(issued) = MaxNames
    /\ issued[1].tok = "foo" /\ issued[2].tok = "" /\ issued[3].tok = "Foo"
    /\ issued[4].tok = "foo"
    /\ issued[4].name = issued[1].name
    /\ issued[4].len = 3
    /\ AsStr(strings, issued[3].name) = "Foo"

(***************************************************************************)
(* Lexer (syntax/lexer.rs)                                                 *)
(*                                                                         *)
(* The text is ASCII: a char is a one-character string, a byte offset is   *)
(* a character offset, and NFKC normalisation leaves the line as read.     *)
(* The one other character is U+00AB, which NFKC leaves alone and which    *)
(* only occurs first on its line, where no offset is taken behind it.      *)
(***************************************************************************)

\* Bound of the model: the number of Lexer::next calls one call of
\* Parser::next may make before it is reported as not returning.
MaxLexCalls == 28

\* The characters of a string, as a set.
CharsOf(s) == {SubSeq(s, i, i) : i \in 1..Len(s)}

\* &line[i - 1..]: the rest of a string from its i-th character on.
StrFrom(s, i) == SubSeq(s, i, Len(s))

\* line.chars().nth(i - 1), the empty string standing for None.
CharAt(s, i) == IF i <= Len(s) THEN SubSeq(s, i, i) ELSE ""

\* char::is_digit(10) and the regex class \d
Digits == CharsOf("0123456789")

\* char::is_uppercase and the regex class \p{Lu}
UpperCase == CharsOf("ABCDEFGHIJKLMNOPQRSTUVWXYZ")

LowerCase == CharsOf("abcdefghijklmnopqrstuvwxyz")

\* The regex class [\w\d]
WordChars == Digits \cup UpperCase \cup LowerCase \cup {"_"}

\* The regex class [\p{S}\p{Pc}\p{Pd}\p{Po}], less the grave accent, which
\* the texts do not use.
SymbolChars ==
    CharsOf("$+<=>^|~") \cup {"_"} \cup {"-"}
        \cup CharsOf("!#%&*,./:;?@") \cup {"\"", "'", "\\"}

\* char::is_whitespace, char::is_control and the regex class [\s\p{C}]
SpaceChars == {" ", "\t", "\n", "\r", "\f"}

\* The end of the longest run of characters of class that starts at the
\* i-th character of s: the index of the first character at or after i
\* that is not in class, Len(s) + 1 when there is none.
RECURSIVE RunEnd(_, _, _)

RunEnd(s, i, class) ==
    IF i <= Len(s) /\ SubSeq(s, i, i) \in class
    THEN RunEnd(s, i + 1, class)
    ELSE i

\* The same for a run of characters that are not in class.
RECURSIVE RunEndNot(_, _, _)

RunEndNot(s, i, class) ==
    IF i <= Len(s) /\ SubSeq(s, i, i) \notin class
    THEN RunEndNot(s, i + 1, class)
    ELSE i

\* SyntaxError::new
SyntaxError(line, col, kind, what) ==
    [line |-> line, col |-> col, kind |-> kind, what |-> what]

\* SyntaxError::wrap
Wrap(line, col, err) == SyntaxError(line, col, "Wrapper", err)

\* SyntaxError::priority_clash
PriorityClash(line, col) == SyntaxError(line, col, "PrioirtyClash", "")

\* SyntaxError::unbalanced
Unbalanced(line, col, ch) == SyntaxError(line, col, "Unbalanced", ch)

\* SyntaxError::unexpected
Unexpected(line, col, s) == SyntaxError(line, col, "Unexpected", s)

\* SyntaxError::todo
Todo(line, col) == SyntaxError(line, col, "TODO", "")

\* A Token: its variant t, its line and column, and its value: a name, or
\* an integer n, or a float n * 10^e.
Token(t, line, col, name, n, e) ==
    [t |-> t, line |-> line, col |-> col, name |-> name, n |-> n, e |-> e,
     kind |-> ""]

\* Token::Err(err); Token::line and Token::col give the error's position.
TokenErr(err) ==
    [t |-> "Err", line |-> err.line, col |-> err.col, name |-> err.what,
     n |-> 0, e |-> 0, kind |-> err.kind]

\* The SyntaxError inside a Token::Err.
ErrOf(tok) == SyntaxError(tok.line, tok.col, tok.kind, tok.name)

\* Not a token: the lexer panicked (an unwrap of None or of Err, an
\* unreachable!), or made more than MaxLexCalls calls.
Halt(t, why) ==
    [t |-> t, line |-> 0, col |-> 0, name |-> why, n |-> 0, e |-> 0,
     kind |-> ""]

IsHalt(tok) == tok.t \in {"Panic", "Diverge"}

\* char::to_digit(16)
DigitValue(ch) ==
    LET lower == "0123456789abcdef"
        upper == "0123456789ABCDEF"
    IN  IF ch \in CharsOf(lower)
        THEN (CHOOSE i \in 1..16 : SubSeq(lower, i, i) = ch) - 1
        ELSE (CHOOSE i \in 1..16 : SubSeq(upper, i, i) = ch) - 1

\* The characters char::is_digit(radix) accepts.
RadixDigits(radix) ==
    {ch \in CharsOf("0123456789abcdefABCDEF") : DigitValue(ch) < radix}

\* The value of a string of digits in the given radix, most significant
\* digit first.
RECURSIVE DigitsValue(_, _, _)

DigitsValue(s, radix, acc) ==
    IF s = "" THEN acc
    ELSE DigitsValue(StrFrom(s, 2), radix, acc * radix + DigitValue(CharAt(s, 1)))

\* Whether a string of digits is at most i64::MAX, decided on the digits.
I64Max(radix) ==
    CASE radix = 10 -> "9223372036854775807"
      [] radix = 16 -> "7fffffffffffffff"
      [] radix = 8 -> "777777777777777777777"
      [] radix = 2 ->
            "111111111111111111111111111111111111111111111111111111111111111"

RECURSIVE DigitsLeq(_, _)

DigitsLeq(a, b) ==
    LET Leq(x, y) == IF x # y THEN x < y ELSE DigitsLeq(StrFrom(a, 2), StrFrom(b, 2))
    IN  IF a = "" THEN TRUE
        ELSE Leq(DigitValue(CharAt(a, 1)), DigitValue(CharAt(b, 1)))

FitsI64(s, radix) ==
    LET Fits(sig, max) ==
            \/ Len(sig) < Len(max)
            \/ Len(sig) = Len(max) /\ DigitsLeq(sig, max)
    IN  Fits(StrFrom(s, RunEnd(s, 1, {"0"})), I64Max(radix))

\* str::parse::<i64> and i64::from_str_radix on an unsigned literal: Err
\* unless the text is one or more digits of the radix whose value fits.
ParseInt(s, radix) ==
    IF s # "" /\ CharsOf(s) \subseteq RadixDigits(radix) /\ FitsI64(s, radix)
    THEN [ok |-> TRUE, n |-> DigitsValue(s, radix, 0)]
    ELSE [ok |-> FALSE, n |-> 0]

\* A float n * 10^e in normal form: n has no trailing zero, zero is 0 * 10^0.
RECURSIVE NormalFloat(_, _)

NormalFloat(n, e) ==
    IF n = 0 THEN [ok |-> TRUE, n |-> 0, e |-> 0]
    ELSE IF n % 10 = 0 THEN NormalFloat(n \div 10, e + 1)
    ELSE [ok |-> TRUE, n |-> n, e |-> e]

\* s.split(seps).nth(0): the part of s before its first character of seps.
Before(s, seps) == SubSeq(s, 1, RunEndNot(s, 1, seps) - 1)

\* The part of s behind its first character of seps, empty when there is
\* none.
After(s, seps) ==
    LET From(i) == IF i > Len(s) THEN "" ELSE StrFrom(s, i)
    IN  From(RunEndNot(s, 1, seps) + 1)

\* str::parse::<f64> on the texts lex_decimal matches (digits, an optional
\* fraction, an optional exponent, underscores among the digits): Err when
\* the text holds an underscore, else the value of the literal.
ParseFloat(s) ==
    LET Exponent(exp) ==
            IF CharAt(exp, 1) = "-" THEN 0 - DigitsValue(StrFrom(exp, 2), 10, 0)
            ELSE DigitsValue(exp, 10, 0)
        Value(int, frac, exp) ==
            NormalFloat(DigitsValue(int \o frac, 10, 0), Exponent(exp) - Len(frac))
        Split(mantissa, exp) ==
            Value(Before(mantissa, {"."}), After(mantissa, {"."}), exp)
    IN  IF "_" \in CharsOf(s) THEN [ok |-> FALSE, n |-> 0, e |-> 0]
        ELSE Split(Before(s, {"e"}), After(s, {"e"}))

\* What a lex_ routine returns: the token and the length of its text.
Lexed(tok, len) == [tok |-> tok, len |-> len]

\* Lexer::lex_simple
LexSimple(text, line, col) ==
    LET Simple(ch) ==
            CASE ch = "(" -> Token("ParenOpen", line, col, "", 0, 0)
              [] ch = ")" -> Token("ParenClose", line, col, "", 0, 0)
              [] ch = "[" -> Token("BracketOpen", line, col, "", 0, 0)
              [] ch = "]" -> Token("BracketClose", line, col, "", 0, 0)
              [] ch = "{" -> Token("BraceOpen", line, col, "", 0, 0)
              [] ch = "}" -> Token("BraceClose", line, col, "", 0, 0)
              [] ch = "," -> Token("Comma", line, col, ",", 0, 0)
              [] ch = "|" -> Token("Bar", line, col, "|", 0, 0)
              [] ch = "." -> Token("Dot", line, col, "", 0, 0)
              [] OTHER -> Halt("Panic", "lex_simple must be called with a simple character")
    IN  Lexed(Simple(CharAt(text, 1)), 1)

\* Lexer::lex_functor
LexFunctor(text, line, col) ==
    LET Functor(s) == Lexed(Token("Funct", line, col, s, 0, 0), Len(s))
        Match(class) == SubSeq(text, 1, RunEnd(text, 1, class) - 1)
    IN  IF CharAt(text, 1) \in WordChars
        THEN Functor(Before(Match(WordChars), {",", ".", "|"}))
        ELSE IF CharAt(text, 1) \in SymbolChars
        THEN Functor(Before(Match(SymbolChars), {",", ".", "|"}))
        ELSE Lexed(Halt("Panic", "lex_functor: unwrap on None"), 0)

\* Lexer::lex_var
LexVar(text, line, col) ==
    LET Variable(s) == Lexed(Token("Var", line, col, s, 0, 0), Len(s))
    IN  IF CharAt(text, 1) \notin UpperCase \cup {"_"}
        THEN Lexed(Halt("Panic", "lex_var: unwrap on None"), 0)
        ELSE Variable(SubSeq(text, 1, RunEnd(text, 2, WordChars) - 1))

\* Lexer::lex_decimal
LexDecimal(text, line, col) ==
    LET digits == Digits \cup {"_"}
        Group(i, from) ==
            IF CharAt(text, from) \in digits THEN RunEnd(text, from, digits) ELSE i
        FracEnd(i) == IF CharAt(text, i) = "." THEN Group(i, i + 1) ELSE i
        ExpEnd(i) ==
            IF CharAt(text, i) # "e" THEN i
            ELSE IF CharAt(text, i + 1) = "-" THEN Group(i, i + 2)
            ELSE Group(i, i + 1)
        Matched(s, f, i) ==
            IF CharsOf(s) \cap {"e", "."} # {}
            THEN IF f.ok THEN Lexed(Token("Float", line, col, "", f.n, f.e), Len(s))
                 ELSE Lexed(Halt("Panic", "lex_decimal: unwrap on Err"), 0)
            ELSE IF i.ok THEN Lexed(Token("Int", line, col, "", i.n, 0), Len(s))
                 ELSE Lexed(Halt("Panic", "lex_decimal: unwrap on Err"), 0)
        Match(s) == Matched(s, ParseFloat(s), ParseInt(s, 10))
    IN  IF CharAt(text, 1) \notin Digits
        THEN Lexed(Halt("Panic", "lex_decimal: unwrap on None"), 0)
        ELSE Match(SubSeq(text, 1, ExpEnd(FracEnd(RunEnd(text, 2, digits))) - 1))

\* Lexer::lex_zero
LexZero(text, line, col) ==
    LET second == CharAt(text, 2)
        radix == CASE second = "x" -> 16
                   [] second = "o" -> 8
                   [] second = "b" -> 2
                   [] OTHER -> 10
        Parsed(i, end) ==
            IF i.ok THEN Lexed(Token("Int", line, col, "", i.n, 0), end - 1)
            ELSE Lexed(Halt("Panic", "the buffer must be valid in the given radix"), 0)
        Buffered(end) == Parsed(ParseInt("0" \o SubSeq(text, 3, end - 1), radix), end)
    IN  IF second = "." \/ second \in Digits THEN LexDecimal(text, line, col)
        ELSE IF radix = 10 THEN Lexed(Token("Int", line, col, "", 0, 0), 1)
        ELSE Buffered(RunEnd(text, 3, RadixDigits(radix)))

\* Lexer::lex_minus
LexMinus(text, line, col) ==
    LET Negated(sub) ==
            IF IsHalt(sub.tok) THEN sub
            ELSE Lexed([sub.tok EXCEPT !.n = 0 - @], 1 + sub.len)
    IN  IF CharAt(text, 2) = "0" THEN Negated(LexZero(StrFrom(text, 2), line, col))
        ELSE IF CharAt(text, 2) \in Digits
        THEN Negated(LexDecimal(StrFrom(text, 2), line, col))
        ELSE LexFunctor(text, line, col)

\* Lexer::lex_quote, the loop over the characters after the opening quote.
RECURSIVE QuoteLoop(_, _, _, _, _)

QuoteLoop(text, i, quote, buf, escape) ==
    LET Char(ch) ==
            IF escape
            THEN QuoteLoop(text, i + 1, quote,
                           buf \o (CASE ch = "n" -> "\n"
                                     [] ch = "r" -> "\r"
                                     [] ch = "t" -> "\t"
                                     [] OTHER -> ch),
                           FALSE)
            ELSE IF ch = "\\" THEN QuoteLoop(text, i + 1, quote, buf, TRUE)
            ELSE IF ch = quote THEN [buf |-> buf, ok |-> TRUE]
            ELSE QuoteLoop(text, i + 1, quote, buf \o ch, FALSE)
    IN  IF i > Len(text) THEN [buf |-> buf, ok |-> FALSE]
        ELSE Char(CharAt(text, i))

\* Lexer::lex_quote
LexQuote(text, line, col) ==
    LET Quoted(quote, r) ==
            IF r.ok /\ quote = "\""
            THEN Lexed(Token("Str", line, col, r.buf, 0, 0), Len(r.buf) + 2)
            ELSE IF r.ok
            THEN Lexed(Token("Funct", line, col, r.buf, 0, 0), Len(r.buf) + 2)
            ELSE Lexed(TokenErr(Unbalanced(line, col, quote)), Len(r.buf) + 2)
        Quote(quote) == Quoted(quote, QuoteLoop(text, 2, quote, "", FALSE))
    IN  Quote(CharAt(text, 1))

\* Lexer::lex_space
LexSpace(text, line, col) ==
    IF CharAt(text, 1) \notin SpaceChars
    THEN Lexed(Halt("Panic", "lex_space: unwrap on None"), 0)
    ELSE Lexed(Token("Space", line, col, "", 0, 0), RunEnd(text, 1, SpaceChars) - 1)

\* Lexer::lex_comment: the token it makes is a Token::Space.
LexComment(text, line, col) ==
    IF CharAt(text, 1) # "%"
    THEN Lexed(Halt("Panic", "lex_comment: unwrap on None"), 0)
    ELSE Lexed(Token("Space", line, col, "", 0, 0), RunEndNot(text, 2, {"\n"}) - 1)

\* Lexer::lex
Lex(text, line, col) ==
    LET ch == CharAt(text, 1)
    IN  CASE ch = "" -> Lexed(Halt("Panic", "lex: unwrap on None"), 0)
          [] ch \in CharsOf("()[]{},|.") -> LexSimple(text, line, col)
          [] ch = "%" -> LexComment(text, line, col)
          [] ch = "_" -> LexVar(text, line, col)
          [] ch \in {"'", "\""} -> LexQuote(text, line, col)
          [] ch = "-" -> LexMinus(text, line, col)
          [] ch = "0" -> LexZero(text, line, col)
          [] ch \in Digits \ {"0"} -> LexDecimal(text, line, col)
          [] ch \in SpaceChars -> LexSpace(text, line, col)
          [] ch \in UpperCase -> LexVar(text, line, col)
          [] OTHER -> LexFunctor(text, line, col)

\* What the reader holds: the lines BufRead::read_line will return, each
\* with its line feed except possibly the last.
RECURSIVE Lines(_)

Lines(text) ==
    LET Cut(end) ==
            IF end > Len(text) THEN <<[err |-> FALSE, text |-> text]>>
            ELSE <<[err |-> FALSE, text |-> SubSeq(text, 1, end)]>>
                     \o Lines(StrFrom(text, end + 1))
    IN  IF text = "" THEN <<>> ELSE Cut(RunEndNot(text, 1, {"\n"}))

\* UnicodeNormalization::nfkc, on ASCII text.
Nfkc(text) == text

\* Lexer::new
LexerNew(reader) ==
    [reader |-> reader, line |-> 0, col |-> 1, skip_space |-> TRUE,
     buf_norm |-> "", calls |-> 0]

\* Lexer::report_space
ReportSpace(lexer, yes) == [lexer EXCEPT !.skip_space = yes]

\* Lexer::next: the lexer after the call, and the Option<Token> it returns.
RECURSIVE LexerNext(_)

LexerNext(lexer) ==
    LET refill == Len(lexer.buf_norm) <= lexer.col
        counted == [lexer EXCEPT !.calls = @ + 1]
        moved == [counted EXCEPT !.line = @ + 1, !.col = 1]
        ready == IF refill
                 THEN [moved EXCEPT !.reader = Tail(@),
                                    !.buf_norm = Nfkc(Head(moved.reader).text)]
                 ELSE counted
        Skip(after, tok) ==
            IF tok.t \in {"Space", "Comment"} /\ after.skip_space
            THEN LexerNext(after)
            ELSE [lexer |-> after, tok |-> Some(tok)]
        Advance(r) == Skip([ready EXCEPT !.col = @ + r.len], r.tok)
    IN  IF lexer.calls >= MaxLexCalls
        THEN [lexer |-> lexer, tok |-> Some(Halt("Diverge", "no return"))]
        ELSE IF refill /\ moved.reader = <<>>
        THEN [lexer |-> moved, tok |-> None]
        ELSE IF refill /\ Head(moved.reader).err
        THEN [lexer |-> [moved EXCEPT !.reader = Tail(@)],
              tok |-> Some(TokenErr(Wrap(moved.line, moved.col, Head(moved.reader).text)))]
        ELSE Advance(Lex(StrFrom(ready.buf_norm, ready.col), ready.line, ready.col))

(***************************************************************************)
(* Lexer: the specification                                                *)
(***************************************************************************)

\* Bounds of the Lexer model: the number of calls of next and of
\* report_space on one lexer.
MaxLexNext == 4
MaxReports == 1

\* Source texts of single tokens, without and with backslash escapes.
PlainPieces ==
    {"foo", "X", "_abcd", "123", "456.789", "+++", "(", ".", "'hello world'", "\"hi\""}

EscapePieces == {"'a\\nb'", "'it\\'s'", "\"say \\\"hi\\\"\""}

Pieces == PlainPieces \cup EscapePieces

\* One line of pieces with a space between them.
RECURSIVE JoinPieces(_)

JoinPieces(ps) ==
    IF Len(ps) = 1 THEN ps[1] ELSE ps[1] \o " " \o JoinPieces(Tail(ps))

\* The column of the k-th piece of such a line.
RECURSIVE PieceCol(_, _)

PieceCol(ps, k) ==
    IF k = 1 THEN 1 ELSE PieceCol(ps, k - 1) + Len(ps[k - 1]) + 1

\* One line of one or two pieces, with its line feed or, as the last line
\* of a file may be, without.
PositionCases ==
    {[text |-> JoinPieces(ps) \o end, pieces |-> ps] :
        ps \in {<<p>> : p \in Pieces} \cup {<<p, q>> : p \in Pieces, q \in PlainPieces},
        end \in {"\n", ""}}

\* Texts with white space and comments between and behind the tokens.
SpaceTexts ==
    {"foo  bar\n", "foo % a comment\n" \o "bar\n", "% a comment\n" \o "X\n",
     "\t\t   \t\n" \o "foo\n", "foo\t(bar) .\n"}

\* The decimal texts of integers: i64::MIN, and values of at most 32 bits.
DecimalTexts ==
    {"0", "7", "-7", "10", "-1", "123", "-123", "1000000", "2147483647", "-2147483647",
     "-9223372036854775808"}

\* Integer literals with underscores between the digits, and their values.
UnderscoreCases ==
    {[text |-> "1_000", n |-> 1000], [text |-> "1_0", n |-> 10],
     [text |-> "12_34_56", n |-> 123456],
     [text |-> "0xDE_AD", n |-> 57005], [text |-> "0xf_f", n |-> 255],
     [text |-> "0o6_44", n |-> 420], [text |-> "0b1100_1100", n |-> 204]}

\* Texts with a lexical problem in their first token: an unclosed quote, a
\* literal that does not fit i64, a character that starts no token.
ProblemTexts ==
    {"'abc\n", "\"abc def\n", "9223372036854775808\n", "99999999999999999999 foo\n",
     "0x8000000000000000\n", "0b" \o I64Max(2) \o "1\n", "«\n", "«foo.\n"}

\* Quoted atoms and strings whose closing quote is on a later line than the
\* opening one, with the kind and the text of the token they denote.
MultiLineQuotes ==
    {[text |-> "'foo\nbar'\n", t |-> "Funct", name |-> "foo\nbar"],
     [text |-> "\"a\nb\" x\n", t |-> "Str", name |-> "a\nb"],
     [text |-> "'a\n\nb'.\n", t |-> "Funct", name |-> "a\n\nb"]}

LexTexts ==
    {c.text : c \in PositionCases} \cup SpaceTexts
        \cup {c.text : c \in MultiLineQuotes}
        \cup {t \o "\n" : t \in DecimalTexts}
        \cup {c.text \o "\n" : c \in UnderscoreCases}
        \cup ProblemTexts

\* A reader whose read_line fails: at once, or after a line.
FailingReaders ==
    {<<[err |-> TRUE, text |-> "stream did not contain valid UTF-8"]>>,
     Lines("foo.\n") \o <<[err |-> TRUE, text |-> "stream did not contain valid UTF-8"]>>}

\* Readers whose read_line fails between two lines, with the kinds and
\* names of the tokens of the lines and of the error in between.
FailingBetween ==
    {[reader |-> Lines("foo.\n")
                   \o <<[err |-> TRUE, text |-> "stream did not contain valid UTF-8"]>>
                   \o Lines("bar.\n"),
      toks |-> <<<<"Funct", "foo">>, <<"Dot", "">>, <<"Err", "">>, <<"Funct", "bar">>,
                 <<"Dot", "">>>>],
     [reader |-> Lines("X\n")
                   \o <<[err |-> TRUE, text |-> "stream did not contain valid UTF-8"]>>
                   \o Lines("Y Z\n"),
      toks |-> <<<<"Var", "X">>, <<"Err", "">>, <<"Var", "Y">>, <<"Var", "Z">>>>]}

Readers ==
    {Lines(t) : t \in LexTexts} \cup FailingReaders \cup {c.reader : c \in FailingBetween}

\* One entry of the history of a lexer: the call, its argument, the lexer
\* before and after it, and what it returned.
LexCall(op, yes, before, ret, after) ==
    [op |-> op, yes |-> yes, before |-> before, ret |-> ret, after |-> after]

IsNextCall(c) == c.op = "next"

IsReportCall(c) == c.op = "report_space"

\* The calls of next made so far, in order.
NextCalls == SelectSeq(emitted, IsNextCall)

\* Whether an earlier call of next panicked or did not return.
LexerDead ==
    \E k \in 1..Len(emitted) :
        emitted[k].ret # None /\ IsHalt(emitted[k].ret[1])

\* let mut toks = Lexer::new(reader, &ns)
NewLexer(reader) ==
    /\ lx = LexerNew(reader)
    /\ src = reader
    /\ emitted = <<>>

\* toks = toks.report_space(yes)
DoReportSpace ==
    /\ ~LexerDead
    /\ Len(SelectSeq(emitted, IsReportCall)) < MaxReports
    /\ \E yes \in BOOLEAN :
          /\ lx' = ReportSpace(lx, yes)
          /\ emitted' = Append(emitted,
                               LexCall("report_space", yes, lx, None, ReportSpace(lx, yes)))
    /\ UNCHANGED <<src, mapVars, opVars, parserVars, nsVars>>

\* toks.next()
DoLexNext ==
    /\ ~LexerDead
    /\ Len(NextCalls) < MaxLexNext
    /\ LET Returns(r) ==
               /\ lx' = [r.lexer EXCEPT !.calls = 0]
               /\ emitted' = Append(emitted,
                                    LexCall("next", FALSE, lx, r.tok,
                                            [r.lexer EXCEPT !.calls = 0]))
       IN  Returns(LexerNext([lx EXCEPT !.calls = 0]))
    /\ UNCHANGED <<src, mapVars, opVars, parserVars, nsVars>>

InitLexer ==
    /\ NoCloneMap
    /\ NoOpTable
    /\ NoParser
    /\ NoNameSpace
    /\ \E reader \in Readers : NewLexer(reader)

NextLexer == DoLexNext \/ DoReportSpace

SpecLexer == InitLexer /\ [][NextLexer]_vars

(***************************************************************************)
(* Lexer: properties                                                       *)
(***************************************************************************)

\* No call of report_space has been made: the lexer is as it was built.
AsBuilt == SelectSeq(emitted, IsReportCall) = <<>>

\* The calls of next up to the one that returned None, the end of the
\* stream of tokens: their indices in the history.
InStream == {k \in 1..Len(emitted) : \A j \in 1..(k - 1) : emitted[j].ret # None}

\* Whether on the lines of cases the k-th token the lexer emits is at the
\* position of the k-th piece, the call leaves the lexer right behind the
\* piece, and the call after the last piece returns None.
PositionsHold(cases) ==
    \A c \in cases :
        src = Lines(c.text) /\ AsBuilt =>
            \A k \in InStream :
                LET call == emitted[k]
                    Placed(tok) ==
                        /\ tok.line = 1
                        /\ tok.col = PieceCol(c.pieces, k)
                        /\ call.after.line = 1
                        /\ call.after.col = PieceCol(c.pieces, k) + Len(c.pieces[k])
                IN  IF k <= Len(c.pieces)
                    THEN call.ret # None /\ Placed(call.ret[1])
                    ELSE call.ret = None

\* C13: for every line of tokens, quoted atoms and strings with backslash
\* escapes among them, the k-th token the lexer emits is at the line and
\* the 1-based column of the first character of the k-th token's source
\* text, and the call leaves the lexer at the column right behind the last
\* character of that source text; no token is emitted beyond those of the
\* text, and none of them is missed: consecutive tokens neither overlap nor
\* skip characters.
C13_TokenPositions == PositionsHold(PositionCases)

\* The same on the lines that end with a line feed and have no backslash
\* escape.
PositionsOfPlainLines ==
    PositionsHold({c \in PositionCases :
                      /\ \A k \in 1..Len(c.pieces) : c.pieces[k] \in PlainPieces
                      /\ CharAt(c.text, Len(c.text)) = "\n"})

\* The argument of the last call of report_space before the k-th entry of
\* the history, None when there was no such call.
LastReport(k) ==
    LET calls == {j \in 1..(k - 1) : IsReportCall(emitted[j])}
    IN  IF calls = {} THEN None
        ELSE Some(emitted[CHOOSE j \in calls : \A i \in calls : i <= j].yes)

\* Whether the lexer stands at white space or a comment within a line.
AtSpace(lexer) ==
    /\ lexer.col < Len(lexer.buf_norm)
    /\ CharAt(lexer.buf_norm, lexer.col) \in SpaceChars \cup {"%"}

IsSpace(tok) == tok.t \in {"Space", "Comment"}

\* C14: a lexer as built, and a lexer after report_space(false), never
\* returns a Space or Comment token from next; a lexer after
\* report_space(true), standing at white space or a comment, returns the
\* Space or Comment token of that place from next.
C14_ReportSpace ==
    \A k \in 1..Len(emitted) :
        LET call == emitted[k]
            Emits(tok) ==
                /\ IsSpace(tok)
                /\ tok.line = call.before.line
                /\ tok.col = call.before.col
        IN  IsNextCall(call) =>
                /\ LastReport(k) \in {None, Some(FALSE)} =>
                      call.ret = None \/ ~IsSpace(call.ret[1])
                /\ LastReport(k) = Some(TRUE) /\ AtSpace(call.before) =>
                      call.ret # None /\ Emits(call.ret[1])

\* A lexer as built filters the Space and Comment tokens out.
FiltersAsBuilt ==
    \A k \in 1..Len(emitted) :
        IsNextCall(emitted[k]) /\ LastReport(k) = None =>
            emitted[k].ret = None \/ ~IsSpace(emitted[k].ret[1])

\* Display for i64, on a value of at most 32 bits.
RECURSIVE ToDecimal(_)

ToDecimal(n) ==
    IF n < 0 THEN "-" \o ToDecimal(0 - n)
    ELSE IF n < 10 THEN SubSeq("0123456789", n + 1, n + 1)
    ELSE ToDecimal(n \div 10) \o SubSeq("0123456789", (n % 10) + 1, (n % 10) + 1)

\* Whether each of texts is lexed as one Int whose decimal form it is.
RoundTrips(texts) ==
    \A text \in texts :
        src = Lines(text \o "\n") /\ AsBuilt =>
            /\ Len(emitted) >= 1 =>
                  /\ emitted[1].ret # None
                  /\ emitted[1].ret[1].t = "Int"
                  /\ ToDecimal(emitted[1].ret[1].n) = text
            /\ Len(emitted) >= 2 => emitted[2].ret = None

\* C15: the decimal text of an i64, negative values and i64::MIN included,
\* is lexed as exactly one token: the first call of next returns an Int
\* whose value is the one the text is the decimal form of, and the second
\* call returns None.
C15_DecimalRoundTrip == RoundTrips(DecimalTexts)

\* The same for the values above i64::MIN.
DecimalAboveMin == RoundTrips(DecimalTexts \ {"-9223372036854775808"})

\* C16: an integer literal with underscores between its digits, decimal or
\* behind 0x, 0o or 0b, is lexed as one token: the first call of next
\* returns the Int of the digits without the underscores, and the second
\* call returns None.
C16_UnderscoreSeparators ==
    \A c \in UnderscoreCases :
        src = Lines(c.text \o "\n") /\ AsBuilt =>
            /\ Len(emitted) >= 1 =>
                  /\ emitted[1].ret # None
                  /\ emitted[1].ret[1].t = "Int"
                  /\ emitted[1].ret[1].n = c.n
            /\ Len(emitted) >= 2 => emitted[2].ret = None

\* C17: next is total and reports every lexical problem in band: no call
\* of next panics or fails to return, and on a text whose first token is an
\* unclosed quote, a numeric literal that does not fit i64 or a character
\* that starts no token, and on a reader whose read_line fails at once, the
\* first call of next returns a Token::Err.
C17_ErrorsInBand ==
    /\ \A k \in 1..Len(emitted) :
          emitted[k].ret = None \/ ~IsHalt(emitted[k].ret[1])
    /\ LET problem ==
               \/ \E text \in ProblemTexts : src = Lines(text)
               \/ \E reader \in FailingReaders : src = reader /\ reader[1].err
       IN  problem /\ emitted # <<>> /\ AsBuilt =>
               emitted[1].ret # None /\ emitted[1].ret[1].t = "Err"

\* The problems next does report in band: an unclosed quote and a failed
\* read_line, the latter as a wrapped error at the line it occurred at.
QuoteAndReadErrorsInBand ==
    /\ \A text \in {"'abc\n", "\"abc def\n"} :
          src = Lines(text) /\ emitted # <<>> /\ AsBuilt =>
              emitted[1].ret = Some(TokenErr(Unbalanced(1, 1, CharAt(text, 1))))
    /\ \A reader \in FailingReaders :
          src = reader =>
              \A k \in 1..Len(emitted) :
                  LET call == emitted[k]
                  IN  /\ IsNextCall(call)
                      /\ call.before.reader # <<>>
                      /\ Head(call.before.reader).err
                      /\ Len(call.before.buf_norm) <= call.before.col
                      => /\ call.ret # None
                         /\ call.ret[1].t = "Err"
                         /\ call.ret[1].kind = "Wrapper"
                         /\ call.ret[1].line = call.before.line + 1

\* C21: a quoted atom or string whose closing quote is on a later line is
\* one token: the first call of next returns the Funct or Str whose text
\* holds the line feed, and no call of next returns an unclosed-quote error,
\* the quote being closed before the input ends.
C21_MultiLineQuotes ==
    \A c \in MultiLineQuotes :
        src = Lines(c.text) /\ AsBuilt =>
            /\ emitted # <<>> => emitted[1].ret = Some(Token(c.t, 1, 1, c.name, 0, 0))
            /\ \A k \in 1..Len(emitted) :
                  emitted[k].ret = None \/ emitted[k].ret[1].t # "Err"

\* What next does with a quote that is open at the end of its line: it
\* returns the unclosed-quote error at the opening quote and goes on with
\* the next line.
QuoteEndsWithItsLine ==
    \A c \in MultiLineQuotes :
        src = Lines(c.text) /\ AsBuilt =>
            /\ emitted # <<>> =>
                  /\ emitted[1].ret = Some(TokenErr(Unbalanced(1, 1, CharAt(c.text, 1))))
                  /\ emitted[1].after.line = 1
            /\ Len(emitted) >= 2 /\ emitted[2].ret # None => emitted[2].ret[1].line >= 2

\* The kind of a token returned, and its name where the expected tokens
\* have one.
KindAndName(ret) ==
    IF ret[1].t \in {"Funct", "Var"} THEN <<ret[1].t, ret[1].name>> ELSE <<ret[1].t, "">>

\* C30: when read_line fails on a refill, next returns one Token::Err for
\* it and goes on with the lines that follow: the tokens returned are those
\* of the lines read, in order, with the one error where the read failed,
\* and no token of a line lexed before is returned again.
C30_ReadErrorOnce ==
    \A c \in FailingBetween :
        src = c.reader /\ AsBuilt =>
            \A k \in 1..Len(emitted) :
                k <= Len(c.toks) =>
                    emitted[k].ret # None /\ KindAndName(emitted[k].ret) = c.toks[k]

\* What next does on a failed read_line: it returns the one error and
\* leaves the line lexed before in its buffer; the call after lexes that
\* line again from its first column, one line further down.
LineAgainAfterReadError ==
    \A c \in FailingBetween :
        src = c.reader /\ AsBuilt =>
            \A k \in 1..Len(emitted) :
                emitted[k].ret # None /\ emitted[k].ret[1].t = "Err" =>
                    /\ \A j \in 1..(k - 1) : KindAndName(emitted[j].ret) = c.toks[j]
                    /\ emitted[k].ret[1].kind = "Wrapper"
                    /\ emitted[k].after.buf_norm = c.reader[1].text
                    /\ k < Len(emitted) =>
                          /\ emitted[k + 1].ret # None
                          /\ KindAndName(emitted[k + 1].ret) = c.toks[1]
                          /\ emitted[k + 1].ret[1].line = 2
                          /\ emitted[k + 1].ret[1].col = 1

(***************************************************************************)
(* Parser (syntax/parser.rs)                                               *)
(***************************************************************************)

\* OpTable::default
DefaultOps ==
    OpTableFrom(<<
        Op("XFX", 1200, "-->"),
        Op("XFX", 1200, ":-"),
        Op("FX", 1200, ":-"),
        Op("FX", 1200, "?-"),
        Op("FX", 1150, "dynamic"),
        Op("FX", 1150, "discontiguous"),
        Op("FX", 1150, "initialization"),
        Op("FX", 1150, "meta_predicate"),
        Op("FX", 1150, "module_transparent"),
        Op("FX", 1150, "multifile"),
        Op("FX", 1150, "public"),
        Op("FX", 1150, "thread_local"),
        Op("FX", 1150, "thread_initialization"),
        Op("FX", 1150, "volatile"),
        Op("XFY", 1100, ";"),
        Op("XFY", 1100, "|"),
        Op("XFY", 1050, "->"),
        Op("XFY", 1050, "*->"),
        Op("XFY", 1000, ","),
        Op("XFX", 990, ":="),
        Op("FY", 900, "\\+"),
        Op("XFX", 700, "<"),
        Op("XFX", 700, "="),
        Op("XFX", 700, "=.."),
        Op("XFX", 700, "=@="),
        Op("XFX", 700, "\\=@="),
        Op("XFX", 700, "=:="),
        Op("XFX", 700, "=<"),
        Op("XFX", 700, "=="),
        Op("XFX", 700, "=\\="),
        Op("XFX", 700, ">"),
        Op("XFX", 700, ">="),
        Op("XFX", 700, "@<"),
        Op("XFX", 700, "@=<"),
        Op("XFX", 700, "@>"),
        Op("XFX", 700, "@>="),
        Op("XFX", 700, "\\="),
        Op("XFX", 700, "\\=="),
        Op("XFX", 700, "as"),
        Op("XFX", 700, "is"),
        Op("XFX", 700, ">:<"),
        Op("XFX", 700, ":<"),
        Op("XFY", 600, ":"),
        Op("YFX", 500, "+"),
        Op("YFX", 500, "-"),
        Op("YFX", 500, "/\\"),
        Op("YFX", 500, "\\/"),
        Op("YFX", 500, "xor"),
        Op("FX", 500, "?"),
        Op("YFX", 400, "*"),
        Op("YFX", 400, "/"),
        Op("YFX", 400, "//"),
        Op("YFX", 400, "div"),
        Op("YFX", 400, "rdiv"),
        Op("YFX", 400, "<<"),
        Op("YFX", 400, ">>"),
        Op("YFX", 400, "mod"),
        Op("YFX", 400, "rem"),
        Op("XFX", 200, "**"),
        Op("XFY", 200, "^"),
        Op("FY", 200, "+"),
        Op("FY", 200, "-"),
        Op("FY", 200, "\\"),
        Op("YFX", 100, "."),
        Op("FX", 1, "$")
    >>).table

\* A Symbol: its variant s, then the arity and name of a Funct, the text
\* of a Str (in name), the index of a Var (in n), the value of an Int (in
\* n), the value n * 10^e of a Float.
Symbol(s, n, e, name) == [s |-> s, n |-> n, e |-> e, name |-> name]

Funct(arity, name) == Symbol("Funct", arity, 0, name)

Str(val) == Symbol("Str", 0, 0, val)

Var(n) == Symbol("Var", n, 0, "")

SymbolInt(val) == Symbol("Int", val, 0, "")

Float(n, e) == Symbol("Float", n, e, "")

\* Parser::new. overflow_checks tells how the build treats integer
\* overflow: a panic, or wrapping.
ParserNew(reader, ops, overflow_checks) ==
    [ops |-> ops, lexer |-> LexerNew(reader), peeked |-> None, errs |-> <<>>,
     vars |-> <<>>, buf |-> <<>>, overflow_checks |-> overflow_checks]

\* The results of the parser's routines: the parser afterwards, and Ok(val),
\* Err(val), or a halt (a panic, no return) with its reason.
Ok(ps, val) == [ps |-> ps, tag |-> "Ok", val |-> val]

Err(ps, err) == [ps |-> ps, tag |-> "Err", val |-> err]

Halted(ps, tok) == [ps |-> ps, tag |-> tok.t, val |-> tok.name]

\* self.buf.push(symbol)
Push(ps, symbol) == [ps EXCEPT !.buf = Append(@, symbol)]

\* Parser::next_tok
NextTok(ps) ==
    LET Lexer(r) == [ps |-> [ps EXCEPT !.lexer = r.lexer], tok |-> r.tok]
    IN  IF ps.peeked # None
        THEN [ps |-> [ps EXCEPT !.peeked = None], tok |-> ps.peeked]
        ELSE Lexer(LexerNext(ps.lexer))

\* Parser::peek_tok
PeekTok(ps) ==
    LET Peeked(r) == [ps |-> [r.ps EXCEPT !.peeked = r.tok], tok |-> r.tok]
    IN  IF ps.peeked # None THEN [ps |-> ps, tok |-> ps.peeked]
        ELSE Peeked(NextTok(ps))

\* Whether an Option<Token> is Some of one of the given variants.
IsTok(tok, variants) == tok # None /\ tok[1].t \in variants

\* The u32 value a subtraction that wraps below zero gives, 2^32 - 1, is
\* above every precedence; the largest integer at hand stands for it.
U32Max == 2147483647

\* p - 1 on u32
U32Pred(p) == IF p = 0 THEN U32Max ELSE p - 1

\* The index of the first element of vec equal to x, 0-based: the Option
\* that Iterator::position returns.
Position(vec, x) ==
    LET First(hits) ==
            IF hits = {} THEN None
            ELSE Some((CHOOSE i \in hits : \A j \in hits : i <= j) - 1)
    IN  First({i \in 1..Len(vec) : vec[i] = x})

\* Parser::read_primary, the Token::Var arm.
ReadVar(ps, val) ==
    LET Found(pos) ==
            IF pos # None THEN Push(ps, Var(pos[1]))
            ELSE Push([ps EXCEPT !.vars = Append(@, val)], Var(Len(ps.vars)))
    IN  Found(Position(ps.vars, val))

\* Parser::read, Parser::read_primary and Parser::read_args with the steps
\* they are made of: each step takes what the step before it returned.
RECURSIVE Read(_, _), ReadLoop(_, _), ReadPrimary(_, _), ReadArgs(_),
          ReadArgsLoop(_, _)

\* Parser::read, the match on peek_tok in the loop: the operator peeked,
\* when get_compatible accepts it, is taken, its right operand read and its
\* symbol pushed.
ReadOperator(pk, max_prec, prec) ==
    LET Infix(rhs, name) ==
            IF rhs.tag # "Ok" THEN rhs
            ELSE ReadLoop(Ok(Push(rhs.ps, Funct(2, name)), rhs.val), max_prec)
        Found(found, nt, name) ==
            CASE found = None -> Ok(pk.ps, prec)
              [] found # None /\ found[1].kind = "XFY" ->
                    Infix(Read(nt.ps, found[1].prec), name)
              [] found # None /\ found[1].kind \in {"YFX", "XFX"} ->
                    IF found[1].prec = 0 /\ nt.ps.overflow_checks
                    THEN Halted(nt.ps, Halt("Panic", "attempt to subtract with overflow"))
                    ELSE Infix(Read(nt.ps, U32Pred(found[1].prec)), name)
              [] OTHER -> ReadLoop(Ok(Push(nt.ps, Funct(1, name)), prec), max_prec)
    IN  IF ~IsTok(pk.tok, {"Bar", "Comma", "Funct"}) THEN Ok(pk.ps, prec)
        ELSE Found(GetCompatible(pk.ps.ops, pk.tok[1].name, max_prec, prec),
                   NextTok(pk.ps), pk.tok[1].name)

\* Parser::read, the loop: r is what the primary, or the operand before,
\* came to, the precedence in r.val.
ReadLoop(r, max_prec) ==
    IF r.tag # "Ok" THEN r ELSE ReadOperator(PeekTok(r.ps), max_prec, r.val)

\* Parser::read behind its peek_tok
ReadPeeked(pk, max_prec) ==
    IF pk.tok = None THEN Ok(pk.ps, 0)
    ELSE ReadLoop(ReadPrimary(pk.ps, max_prec), max_prec)

\* Parser::read
Read(ps, max_prec) == ReadPeeked(PeekTok(ps), max_prec)

\* Parser::read_primary, the ParenOpen arm behind its read(1200)
ReadParen(inner, tok) ==
    LET Close(close) ==
            IF IsTok(close.tok, {"Panic", "Diverge"}) THEN Halted(close.ps, close.tok[1])
            ELSE IF IsTok(close.tok, {"ParenClose"}) THEN Ok(close.ps, 0)
            ELSE Err(close.ps, Unbalanced(tok.line, tok.col, ")"))
    IN  IF inner.tag # "Ok" THEN inner ELSE Close(NextTok(inner.ps))

\* Parser::read_primary, the arm of Bar, Comma and Funct behind its
\* peek_tok: a compound term, an atom, or a prefix operator.
ReadFunct(pk, name, max_prec) ==
    LET Compound(args) ==
            IF args.tag # "Ok" THEN args
            ELSE Ok(Push(args.ps, Funct(args.val, name)), 0)
        Operand(r, prec) ==
            IF r.tag # "Ok" THEN r ELSE Ok(Push(r.ps, Funct(1, name)), prec)
        Prefix(found) ==
            CASE found # None /\ found[1].kind = "FX" ->
                    IF found[1].prec = 0 /\ pk.ps.overflow_checks
                    THEN Halted(pk.ps, Halt("Panic", "attempt to subtract with overflow"))
                    ELSE Operand(Read(pk.ps, U32Pred(found[1].prec)), found[1].prec)
              [] found # None /\ found[1].kind = "FY" ->
                    Operand(Read(pk.ps, found[1].prec), found[1].prec)
              [] OTHER -> Ok(Push(pk.ps, Funct(0, name)), 0)
    IN  IF IsTok(pk.tok, {"ParenOpen"}) THEN Compound(ReadArgs(pk.ps))
        ELSE IF IsTok(pk.tok, {"ParenClose", "BracketClose", "BraceClose"})
        THEN Ok(Push(pk.ps, Funct(0, name)), 0)
        ELSE Prefix(GetPrefix(pk.ps.ops, name, max_prec))

\* Parser::read_primary, the match on the token next_tok returned
ReadPrimaryTok(nt, max_prec) ==
    LET tok == nt.tok[1]
    IN  IF nt.tok = None
        THEN Err(nt.ps, Unexpected(nt.ps.lexer.line, nt.ps.lexer.col, "eof"))
        ELSE CASE IsHalt(tok) -> Halted(nt.ps, tok)
               [] tok.t \in {"Space", "Comment"} -> ReadPrimary(nt.ps, max_prec)
               [] tok.t \in {"Bar", "Comma", "Funct"} ->
                    ReadFunct(PeekTok(nt.ps), tok.name, max_prec)
               [] tok.t = "Str" -> Ok(Push(nt.ps, Str(tok.name)), 0)
               [] tok.t = "Var" -> Ok(ReadVar(nt.ps, tok.name), 0)
               [] tok.t = "Int" -> Ok(Push(nt.ps, SymbolInt(tok.n)), 0)
               [] tok.t = "Float" -> Ok(Push(nt.ps, Float(tok.n, tok.e)), 0)
               [] tok.t = "ParenOpen" -> ReadParen(Read(nt.ps, 1200), tok)
               [] tok.t \in {"BracketOpen", "BraceOpen"} ->
                    Err(nt.ps, Todo(tok.line, tok.col))
               [] tok.t = "ParenClose" -> Err(nt.ps, Unbalanced(tok.line, tok.col, ")"))
               [] tok.t = "BracketClose" -> Err(nt.ps, Unbalanced(tok.line, tok.col, "]"))
               [] tok.t = "BraceClose" -> Err(nt.ps, Unbalanced(tok.line, tok.col, "}"))
               [] tok.t = "Dot" -> Err(nt.ps, Unexpected(tok.line, tok.col, "period"))
               [] tok.t = "Err" -> Err(nt.ps, ErrOf(tok))

\* Parser::read_primary
ReadPrimary(ps, max_prec) == ReadPrimaryTok(NextTok(ps), max_prec)

\* Parser::read_args, the match on the token after an argument, without
\* its `arity += 1`.
ReadArgsSepFlat(r, arity) ==
    LET Separator(nt) ==
            IF nt.tok = None
            THEN Err(nt.ps, Unexpected(nt.ps.lexer.line, nt.ps.lexer.col, "eof"))
            ELSE IF IsHalt(nt.tok[1]) THEN Halted(nt.ps, nt.tok[1])
            ELSE IF nt.tok[1].t = "ParenClose" THEN Ok(nt.ps, arity)
            ELSE IF nt.tok[1].t = "Comma" THEN ReadArgsLoop(nt.ps, arity)
            ELSE Err(nt.ps, PriorityClash(nt.tok[1].line, nt.tok[1].col))
    IN  IF r.tag # "Ok" THEN r ELSE Separator(NextTok(r.ps))

\* Parser::read_args, the match on the token after an argument: r is what
\* read(999) came to.
ReadArgsSep(r, arity) ==
    LET Separator(nt) ==
            IF nt.tok = None
            THEN Err(nt.ps, Unexpected(nt.ps.lexer.line, nt.ps.lexer.col, "eof"))
            ELSE IF IsHalt(nt.tok[1]) THEN Halted(nt.ps, nt.tok[1])
            ELSE IF nt.tok[1].t = "ParenClose" THEN Ok(nt.ps, arity)
            ELSE IF nt.tok[1].t = "Comma" THEN ReadArgsLoop(nt.ps, arity + 1)
            ELSE Err(nt.ps, PriorityClash(nt.tok[1].line, nt.tok[1].col))
    IN  IF r.tag # "Ok" THEN r ELSE Separator(NextTok(r.ps))

\* Parser::read_args, the loop
ReadArgsLoop(ps, arity) == ReadArgsSep(Read(ps, 999), arity)

\* Parser::read_args, the match on the front token
ReadArgsFront(front) ==
    IF front.tok = None
    THEN Err(front.ps, Unexpected(front.ps.lexer.line, front.ps.lexer.col, "eof"))
    ELSE IF IsHalt(front.tok[1]) THEN Halted(front.ps, front.tok[1])
    ELSE IF front.tok[1].t # "ParenOpen"
    THEN Halted(front.ps, Halt("Panic", "must not call read_args in this context"))
    ELSE ReadArgsLoop(front.ps, 1)

\* Parser::read_args
ReadArgs(ps) == ReadArgsFront(NextTok(ps))

\* struct_from_vec: the boxed slice holds the symbols of the vector.
StructFromVec(vec) == vec

\* self.vars.clear(); self.buf.clear()
ClearBuffers(ps) == [ps EXCEPT !.vars = <<>>, !.buf = <<>>]

\* What a call of Parser::next comes to: Some(structure), None, or a halt.
Returned(ps, ret, st) == [ps |-> ps, ret |-> ret, st |-> st]

\* Parser::next
RECURSIVE ParserNext(_)

\* Parser::next, the match on what read(1200) returned
ParserNextRead(r) ==
    LET Dot(nt) ==
            IF IsTok(nt.tok, {"Panic", "Diverge"}) THEN Returned(nt.ps, nt.tok[1].t, <<>>)
            ELSE IF IsTok(nt.tok, {"Dot"})
            THEN Returned(nt.ps, "Some", StructFromVec(nt.ps.buf))
            ELSE ParserNext([nt.ps EXCEPT !.errs =
                                Append(@, PriorityClash(nt.ps.lexer.line, nt.ps.lexer.col))])
    IN  IF r.tag = "Err" THEN ParserNext([r.ps EXCEPT !.errs = Append(@, r.val)])
        ELSE IF r.tag # "Ok" THEN Returned(r.ps, r.tag, <<>>)
        ELSE IF Len(r.ps.buf) = 0 THEN Returned(r.ps, "None", <<>>)
        ELSE Dot(NextTok(r.ps))

ParserNext(ps) == ParserNextRead(Read(ClearBuffers(ps), 1200))

(***************************************************************************)
(* Parser: the source texts it is run on                                   *)
(*                                                                         *)
(* A text is written from a term, and what the term is in postfix order is *)
(* computed from the term, not from the text.                              *)
(***************************************************************************)

\* Bound of the model: the number of calls of Parser::next on one parser.
MaxNext == 3

\* A term: an atom or compound term name(args), a variable, a number
\* written as lit with the value n * 10^e, a string, an operator applied
\* to its operand(s).
Term(k, name, n, e, args) == [k |-> k, name |-> name, n |-> n, e |-> e, args |-> args]

Atom(name) == Term("fn", name, 0, 0, <<>>)

Fn(name, args) == Term("fn", name, 0, 0, args)

V(name) == Term("var", name, 0, 0, <<>>)

IntLit(lit, n) == Term("int", lit, n, 0, <<>>)

FloatLit(lit, n, e) == Term("float", lit, n, e, <<>>)

StrLit(val) == Term("str", val, 0, 0, <<>>)

Pre(op, t) == Term("pre", op, 0, 0, <<t>>)

Inf(op, l, r) == Term("inf", op, 0, 0, <<l, r>>)

\* The text of a term; sep is written between the arguments of a compound
\* term. An operator is written with the brackets left out, so the term
\* has to nest its operators the way their precedences do.
RECURSIVE Render(_, _), RenderArgs(_, _)

Render(t, sep) ==
    CASE t.k = "fn" ->
            IF t.args = <<>> THEN t.name
            ELSE t.name \o "(" \o RenderArgs(t.args, sep) \o ")"
      [] t.k \in {"var", "int", "float"} -> t.name
      [] t.k = "str" -> "\"" \o t.name \o "\""
      [] t.k = "pre" ->
            t.name \o (IF t.args[1].k = "pre" THEN " " ELSE "") \o Render(t.args[1], sep)
      [] t.k = "inf" ->
            Render(t.args[1], sep) \o " " \o t.name \o " " \o Render(t.args[2], sep)

RenderArgs(ts, sep) ==
    IF Len(ts) = 1 THEN Render(ts[1], sep)
    ELSE Render(ts[1], sep) \o sep \o RenderArgs(Tail(ts), sep)

\* The symbols of a term in postfix order, a variable still under its name.
RECURSIVE Postfix(_), PostfixAll(_)

Postfix(t) ==
    CASE t.k = "fn" -> Append(PostfixAll(t.args), Funct(Len(t.args), t.name))
      [] t.k = "var" -> <<Symbol("Var", 0, 0, t.name)>>
      [] t.k = "int" -> <<SymbolInt(t.n)>>
      [] t.k = "float" -> <<Float(t.n, t.e)>>
      [] t.k = "str" -> <<Str(t.name)>>
      [] t.k = "pre" -> Append(Postfix(t.args[1]), Funct(1, t.name))
      [] t.k = "inf" -> Append(PostfixAll(t.args), Funct(2, t.name))

PostfixAll(ts) ==
    IF ts = <<>> THEN <<>> ELSE Postfix(ts[1]) \o PostfixAll(Tail(ts))

IsVar(symbol) == symbol.s = "Var"

\* The number of distinct names among the first p - 1 of names.
DistinctBefore(names, p) == Cardinality({names[q] : q \in 1..(p - 1)})

\* The numbering of the variables of a clause by first occurrence: the
\* index of an occurrence is the number of distinct names before the first
\* occurrence of its name.
FirstOccurrence(names) ==
    [p \in 1..Len(names) |->
        DistinctBefore(names, CHOOSE q \in 1..p :
                                 /\ names[q] = names[p]
                                 /\ \A r \in 1..(q - 1) : names[r] # names[p])]

\* The names of the variables of a term, in the order of the text.
VarNames(t) ==
    LET vs == SelectSeq(Postfix(t), IsVar)
    IN  [p \in 1..Len(vs) |-> vs[p].name]

\* The Var indices of a structure, in order.
VarIndices(st) ==
    LET vs == SelectSeq(st, IsVar)
    IN  [p \in 1..Len(vs) |-> vs[p].n]

\* The structure of a clause: its term in postfix order, each variable
\* numbered by first occurrence.
StructureOf(t) ==
    LET st == Postfix(t)
        at == {p \in 1..Len(st) : IsVar(st[p])}
        idx == FirstOccurrence(VarNames(t))
    IN  [p \in 1..Len(st) |->
            IF p \in at THEN Var(idx[Cardinality({q \in at : q <= p})])
            ELSE st[p]]

\* One clause on one line.
Clause(t, sep) == Render(t, sep) \o ".\n"

\* test::basic, test::basic_operators and test::realistic of parser.rs
BasicInput == "-foo(bar, baz(123, 456.789), \"hello world\", X).\n"

BasicOperatorsInput == "a * b + c * d.\n"

RealisticInput ==
    "member(H, list(H,T)).\n" \o "member(X, list(_,T)) :- member(X, T).\n"

BasicTerm ==
    Pre("-", Fn("foo", <<Atom("bar"),
                         Fn("baz", <<IntLit("123", 123), FloatLit("456.789", 456789, -3)>>),
                         StrLit("hello world"),
                         V("X")>>))

\* Terms without infix or postfix operators.
Leaves ==
    {Atom("bar"), V("X"), V("Y"), IntLit("123", 123), IntLit("-7", -7),
     FloatLit("456.789", 456789, -3), StrLit("hello world")}

Small == {Atom("bar"), V("X"), V("Y")}

PlainTerms ==
    Leaves
        \cup {Fn("foo", <<t>>) : t \in Leaves}
        \cup {Fn("baz", <<t, u>>) : t \in Leaves, u \in Leaves}
        \cup {Fn("foo", <<t, Fn("baz", <<u, v>>)>>) : t \in Small, u \in Small, v \in Small}
        \cup {Pre("-", t) : t \in Small}
        \cup {Pre(op, Fn("foo", <<t, u>>)) : op \in {"-", "\\+", ":-"}, t \in Small, u \in Small}
        \cup {Pre("-", Pre("-", t)) : t \in Small}
        \cup {Fn("foo", <<Pre("-", t), u>>) : t \in Small, u \in Small}
        \cup {BasicTerm}

\* The clauses of PlainTerms, with what each is to yield.
PlainCases ==
    {[text |-> Clause(t, sep), st |-> StructureOf(t)] :
        t \in PlainTerms, sep \in {", ", ","}}

\* Terms of atoms joined by infix operators.
InfixTerms ==
    LET a == Atom("a")
        b == Atom("b")
        c == Atom("c")
        d == Atom("d")
    IN  {Inf("+", Inf("*", a, b), Inf("*", c, d)),
         Inf("+", a, b), Inf("*", a, b), Inf("=", a, b),
         Inf("+", a, Inf("*", b, c)), Inf("-", Inf("-", a, b), c),
         Inf(":-", a, b), Inf("^", a, Inf("^", b, c))}

InfixCases ==
    {[text |-> Clause(t, ", "), st |-> StructureOf(t)] : t \in InfixTerms}

\* Rule clauses Head :- Body.
RuleTerms ==
    LET heads == {Atom("a"), Fn("foo", <<V("X")>>),
                  Fn("member", <<V("X"), Fn("list", <<V("Y"), V("T")>>)>>)}
        bodies == {Atom("b"), Fn("bar", <<V("X")>>),
                   Fn("member", <<V("X"), V("T")>>)}
    IN  {Inf(":-", h, b) : h \in heads, b \in bodies}

RuleCases ==
    {[text |-> Clause(t, ", "), st |-> StructureOf(t)] : t \in RuleTerms}

\* Clauses with the anonymous variable.
AnonymousTerms ==
    {Fn("foo", <<t, u>>) : t \in {V("_"), V("X")}, u \in {V("_"), V("X")}}
        \cup {Fn("foo", <<V("_"), Fn("bar", <<V("X"), V("_")>>)>>)}

AnonymousCases ==
    {[text |-> Clause(t, ", "), names |-> VarNames(t)] : t \in AnonymousTerms}

\* Two operator-free clauses, and an ill-formed clause before a clause.
TwoClauseCases ==
    {[text |-> Clause(t, ", ") \o Clause(u, ", "),
      sts |-> <<StructureOf(t), StructureOf(u)>>] :
        t \in {Fn("foo", <<V("X"), V("Y")>>)},
        u \in {Fn("bar", <<V("Y"), V("X"), V("Y")>>), Fn("bar", <<V("Z")>>)}}

\* An ill-formed clause on the first line and a well-formed one on the
\* second, with the structures of the well-formed clauses.
IllFormedClauses ==
    {"foo(X Y).", "foo bar.", "foo) bar.", "foo bar baz.", "foo(a, .", "(foo.",
     "foo(bar."}

RecoveryCases ==
    {[text |-> bad \o "\n" \o Clause(t, ", "), bad |-> bad, later |-> <<StructureOf(t)>>] :
        bad \in IllFormedClauses,
        t \in {Atom("baz"), Fn("bar", <<V("Y"), V("X")>>)}}

\* An argument list that is never closed, with and without a final line
\* feed.
UnclosedInputs == {"foo(bar.\n", "foo(bar."}

\* One or two well-formed clauses without operators: on one line or on a
\* line each, the last line with its line feed or without.
LayoutCases ==
    LET clauses == {Atom("a"), Fn("foo", <<V("X")>>), Fn("bar", <<V("Y"), Atom("b")>>)}
    IN  {[text |-> Render(t, ", ") \o "." \o end, sts |-> <<StructureOf(t)>>] :
            t \in clauses, end \in {"\n", ""}}
        \cup {[text |-> Render(t, ", ") \o "." \o sep \o Render(u, ", ") \o "." \o end,
                sts |-> <<StructureOf(t), StructureOf(u)>>] :
                 t \in clauses, u \in clauses, sep \in {"\n", " "}, end \in {"\n", ""}}

\* Texts that end where a term is due: behind a prefix operator, an opening
\* parenthesis or the opening of an argument list.
EndsEarly == {"- \n", "(\n", "foo(\n", "- (\n", "a. -\n", ") . foo(\n"}

\* Texts whose last line is empty: ill-formed clauses, texts that end where
\* a term is due, and well-formed clauses.
EndsWithEmptyLine ==
    {t \o "\n" : t \in EndsEarly}
        \cup {"foo(X Y).\n\n", "foo bar baz.\n\n", "foo(X Y).\nbar.\n\n", "a.\n\n",
               "foo(a, .\n\n", "X Y Z.\n\n"}

\* Operator tables made with OpTable::from: one with a prefix, an infix and
\* a postfix operator of the precedence of a clause, one with operators of
\* precedence 0 and a prefix operator above the precedence of a clause.
PrecOps ==
    OpTableFrom(<<Op("FY", 1200, "f"), Op("YFX", 1200, "+"), Op("YF", 1200, "!")>>).table

ZeroOps ==
    OpTableFrom(<<Op("FX", 0, "f"), Op("FY", 1300, "g"), Op("FX", 1, "$"),
                  Op("YFX", 0, "+")>>).table

\* Clauses over PrecOps in which an infix or a postfix operator follows a
\* term of its own precedence, with the symbol of the last operator that
\* applies to such a term.
PrecCases ==
    {[text |-> "f a + b.\n", last |-> Funct(2, "+")],
     [text |-> "f a + b + c.\n", last |-> Funct(2, "+")],
     [text |-> "f a ! + b.\n", last |-> Funct(2, "+")],
     [text |-> "f a ! .\n", last |-> Funct(1, "!")],
     [text |-> "f a ! ! .\n", last |-> Funct(1, "!")]}

\* Clauses over ZeroOps, without brackets.
ZeroTexts == {"a.\n", "g a.\n", "f a.\n", "f g a.\n", "$ a.\n", "$ a + b.\n", "$ g a.\n"}

\* The parsers built on a table other than OpTable::default.
OperatorCases ==
    {[text |-> c.text, ops |-> PrecOps] : c \in PrecCases}
        \cup {[text |-> t, ops |-> ZeroOps] : t \in ZeroTexts}

Inputs ==
    {c.text : c \in PlainCases} \cup {c.text : c \in InfixCases}
        \cup {c.text : c \in RuleCases} \cup {c.text : c \in AnonymousCases}
        \cup {c.text : c \in TwoClauseCases}
        \cup {BasicInput, BasicOperatorsInput, RealisticInput}
        \cup {"foo(X Y).\n" \o "bar(Y, X).\n", "X Y Z.\n", "- \n"}
        \cup {c.text : c \in RecoveryCases} \cup UnclosedInputs
        \cup {c.text : c \in LayoutCases}
        \cup EndsEarly \cup EndsWithEmptyLine

(***************************************************************************)
(* Parser: the specification                                               *)
(***************************************************************************)

\* let mut parser = Parser::new(text.as_bytes(), &ns, &ops), ops being
\* OpTable::default(&ns)
NewParser(text, overflow_checks) ==
    /\ parser = ParserNew(Lines(text), DefaultOps, overflow_checks)
    /\ input = text
    /\ yielded = <<>>
    /\ drained = <<>>

\* let mut parser = Parser::new(text.as_bytes(), &ns, &ops), ops being
\* OpTable::from(&[..])
NewParserOps(text, ops, overflow_checks) ==
    /\ parser = ParserNew(Lines(text), ops, overflow_checks)
    /\ input = text
    /\ yielded = <<>>
    /\ drained = <<>>

\* Whether an earlier call of next panicked or did not return.
Dead == \E i \in 1..Len(yielded) : yielded[i].ret \in {"Panic", "Diverge"}

\* parser.next()
DoParserNext ==
    /\ ~Dead
    /\ Len(yielded) < MaxNext
    /\ LET Returns(r) ==
               /\ parser' = [r.ps EXCEPT !.lexer.calls = 0]
               /\ yielded' = Append(yielded, [ret |-> r.ret, st |-> r.st])
       IN  Returns(ParserNext([parser EXCEPT !.lexer.calls = 0]))
    /\ UNCHANGED <<input, drained, mapVars, opVars, nsVars, lexVars>>

\* parser.errs(), the iterator run to its end
DoErrs ==
    /\ ~Dead
    /\ parser' = [parser EXCEPT !.errs = <<>>]
    /\ drained' = drained \o parser.errs
    /\ UNCHANGED <<input, yielded, mapVars, opVars, nsVars, lexVars>>

InitParser ==
    /\ NoCloneMap
    /\ NoOpTable
    /\ NoNameSpace
    /\ NoLexer
    /\ \/ \E text \in Inputs, overflow_checks \in BOOLEAN :
             NewParser(text, overflow_checks)
       \/ \E c \in OperatorCases, overflow_checks \in BOOLEAN :
             NewParserOps(c.text, c.ops, overflow_checks)

NextParser == DoParserNext \/ DoErrs

SpecParser == InitParser /\ [][NextParser]_vars

\* Every error recorded so far, in order.
Recorded == drained \o parser.errs

\* The structures yielded so far, in order.
Structures ==
    LET some == {i \in 1..Len(yielded) : yielded[i].ret = "Some"}
        nth(k) == CHOOSE i \in some : Cardinality({j \in some : j <= i}) = k
    IN  [k \in 1..Cardinality(some) |-> yielded[nth(k)].st]

(***************************************************************************)
(* Parser: properties                                                      *)
(***************************************************************************)

\* Some(structure), as a call of next is recorded.
Yield(st) == [ret |-> "Some", st |-> st]

\* Whether a is the tail of b.
IsSuffix(a, b) ==
    Len(a) <= Len(b) /\ a = SubSeq(b, Len(b) - Len(a) + 1, Len(b))

\* C3: with the default operator table, a clause of atoms joined by infix
\* operators is parsed by consuming every compatible operator, the tighter
\* binding ones applied first: the first call of next yields the postfix
\* form of the whole expression, no error is recorded, and the clause gives
\* a single structure (the next call returns None).  In particular
\* `a * b + c * d.` yields [a/0, b/0, */2, c/0, d/0, */2, +/2].
C3_InfixOperators ==
    /\ \A c \in InfixCases :
          input = c.text /\ yielded # <<>> =>
              /\ yielded[1] = Yield(c.st)
              /\ Recorded = <<>>
              /\ Len(yielded) >= 2 => yielded[2].ret = "None"
    /\ input = BasicOperatorsInput /\ yielded # <<>> =>
          yielded[1] = Yield(<<Funct(0, "a"), Funct(0, "b"), Funct(2, "*"),
                               Funct(0, "c"), Funct(0, "d"), Funct(2, "*"),
                               Funct(2, "+")>>)

\* C4: with the default operator table, a rule clause `Head :- Body.` is
\* emitted as one structure: the head's postfix symbols, the body's postfix
\* symbols, then Funct(2, ":-"), and no error is recorded.  For the
\* two-clause member/2 input the parser yields exactly two structures, the
\* second being [Var(0), Var(1), Var(2), list/2, member/2, Var(0), Var(2),
\* member/2, :-/2].
C4_RuleClause ==
    /\ \A c \in RuleCases :
          input = c.text /\ yielded # <<>> =>
              /\ yielded[1] = Yield(c.st)
              /\ Recorded = <<>>
    /\ input = RealisticInput /\ Len(yielded) = 3 =>
          /\ yielded[1].ret = "Some"
          /\ yielded[2] = Yield(<<Var(0), Var(1), Var(2), Funct(2, "list"),
                                  Funct(2, "member"), Var(0), Var(2),
                                  Funct(2, "member"), Funct(2, ":-")>>)
          /\ yielded[3].ret = "None"
          /\ Recorded = <<>>

C6_VariableNumbering ==
    /\ \A c \in PlainCases \cup RuleCases :
          input = c.text =>
              \A k \in 1..Len(Structures) :
                  IsSuffix(VarIndices(Structures[k]), VarIndices(c.st))
    /\ \A c \in TwoClauseCases :
          input = c.text =>
              \A k \in 1..Len(Structures) :
                  k <= 2 => VarIndices(Structures[k]) = VarIndices(c.sts[k])
    /\ input = "foo(X Y).\n" \o "bar(Y, X).\n" =>
          \A k \in 1..Len(Structures) : VarIndices(Structures[k]) = <<0, 1>>
    /\ input = RealisticInput =>
          \A k \in 1..Len(Structures) :
              k = 2 => IsSuffix(VarIndices(Structures[k]), <<0, 1, 2, 0, 2>>)

\* C7: every occurrence of the anonymous variable `_` within one clause is
\* emitted with a variable index that differs from the index of every other
\* occurrence of `_` in that clause.
C7_AnonymousDistinct ==
    \A c \in AnonymousCases :
        input = c.text /\ yielded # <<>> /\ yielded[1].ret = "Some" =>
            LET idx == VarIndices(yielded[1].st)
            IN  /\ Len(idx) = Len(c.names)
                /\ \A p \in 1..Len(idx) : \A q \in 1..Len(idx) :
                      p # q /\ c.names[p] = "_" /\ c.names[q] = "_" =>
                          idx[p] # idx[q]

\* The calls of next up to the first that yielded no structure: the
\* stream of structures, which None ends.
StreamEnd ==
    LET stops == {i \in 1..Len(yielded) : yielded[i].ret # "Some"}
    IN  IF stops = {} THEN Len(yielded) + 1
        ELSE CHOOSE i \in stops : \A j \in stops : i <= j

StreamStructures == [k \in 1..(StreamEnd - 1) |-> yielded[k].st]

\* Whether a is the head of b.
IsPrefix(a, b) == Len(a) <= Len(b) /\ a = SubSeq(b, 1, Len(a))

\* Whether every call of next so far returned.
AllReturned == \A i \in 1..Len(yielded) : yielded[i].ret \in {"Some", "None"}

\* Whether on the texts of cases the parser records an error and yields
\* the structures of the well-formed clauses and no other.
Recovers(cases) ==
    \A c \in cases :
        input = c.text /\ yielded # <<>> =>
            /\ AllReturned
            /\ Recorded # <<>>
            /\ IsPrefix(StreamStructures, c.later)
            /\ StreamEnd <= Len(yielded) => StreamStructures = c.later

\* C18: when a clause with a syntax error is followed by well-formed
\* clauses, the parser records an error, every call of next returns, the
\* structures it yields are those of the well-formed clauses, in order, and
\* nothing else (no structure is built from what is left of the failed
\* clause), and the stream ends only when each of them has been yielded.
C18_ErrorRecovery == Recovers(RecoveryCases)

\* The same where what is left of the failed clause is no clause itself.
RecoversWhereRestIsNoClause ==
    Recovers({c \in RecoveryCases : c.bad \notin {"foo) bar.", "foo bar baz."}})

\* Whether on the text the first call of next returns None and an error of
\* line 1 and a column from 8 on has been recorded.
NoStructureButError(text) ==
    input = text /\ yielded # <<>> =>
        /\ yielded[1].ret = "None"
        /\ \E i \in 1..Len(Recorded) :
              Recorded[i].line = 1 /\ Recorded[i].col \in 8..10

\* C19: on `foo(bar.`, with or without a final line feed, the first call of
\* next returns None, so that no structure is yielded, and an error has been
\* recorded whose line is 1 and whose column is that of the `.` (8) or of
\* the end of the input behind it.
C19_UnclosedArguments == \A text \in UnclosedInputs : NoStructureButError(text)

\* The same with the final line feed only.
UnclosedWithLineFeed == NoStructureButError("foo(bar.\n")

\* Whether on the texts of cases the k-th call of next yields the k-th
\* clause, the call after the last clause returns None, and no error is
\* recorded.
InOrder(cases) ==
    \A c \in cases :
        input = c.text =>
            /\ AllReturned
            /\ Recorded = <<>>
            /\ \A k \in 1..Len(yielded) :
                  IF k <= Len(c.sts) THEN yielded[k] = Yield(c.sts[k])
                  ELSE k = Len(c.sts) + 1 => yielded[k].ret = "None"

\* C20: on an input of well-formed clauses without operators, on one line
\* or on several, with or without a final line feed, each call of next
\* returns, the k-th call yields the structure of the k-th clause, the call
\* after the last clause returns None, and no error is recorded.
C20_ClausesInOrder == InOrder(LayoutCases)

\* The same on the texts that end with a line feed.
InOrderWithLineFeed ==
    InOrder({c \in LayoutCases : CharAt(c.text, Len(c.text)) = "\n"})

\* The parser is as Parser::new built it on the text and the table.
Fresh(text, ops) == parser = ParserNew(Lines(text), ops, parser.overflow_checks)

\* The precedence of the operator of PrecOps a symbol applies.
PrecOf(symbol) ==
    LET op == CHOOSE op \in {PrecOps[i] : i \in 1..Len(PrecOps)} :
                  /\ op.name = symbol.name
                  /\ (symbol.n = 2) = (OpType(op) = "Infix")
    IN  op.prec

\* C25: in read, after an infix or a postfix operator has been consumed,
\* the precedence of the term built so far is the operator's, and it is the
\* value returned to the caller: read(1200) on a clause whose last symbol
\* pushed is that of an infix or a postfix operator returns the precedence
\* of that operator.
C25_PrecAfterOperator ==
    \A c \in PrecCases :
        Fresh(c.text, PrecOps) =>
            LET Holds(r) ==
                    /\ r.tag = "Ok"
                    /\ r.ps.buf[Len(r.ps.buf)] = c.last
                    /\ r.val = PrecOf(c.last)
            IN  Holds(Read(ClearBuffers(parser), 1200))

\* What read returns: behind an infix operator the precedence its right
\* operand came to, here that of an atom; behind a postfix operator the
\* precedence of the term before it, which is the operator's.
PrecAfterOperand ==
    \A c \in PrecCases :
        Fresh(c.text, PrecOps) =>
            LET Holds(r) ==
                    /\ r.tag = "Ok"
                    /\ r.ps.buf[Len(r.ps.buf)] = c.last
                    /\ r.val = IF c.last.n = 2 THEN 0 ELSE PrecOf(c.last)
            IN  Holds(Read(ClearBuffers(parser), 1200))

\* The text has no brackets: every symbol of an arity above 0 that is
\* pushed while it is read is the symbol of an operator.
BracketFree(text) == \A i \in 1..Len(text) : CharAt(text, i) \notin {"(", ")"}

\* Every operator applied in a structure is, by its name and role, an
\* operator of the table whose precedence is at most max_prec.
WithinCeiling(st, ops, max_prec) ==
    \A i \in 1..Len(st) :
        st[i].s = "Funct" /\ st[i].n >= 1 =>
            \E j \in 1..Len(ops) :
                /\ ops[j].name = st[i].name
                /\ (st[i].n = 2) = (OpType(ops[j]) = "Infix")
                /\ ops[j].prec <= max_prec

\* C26: read(max_prec) consumes no prefix, infix or postfix operator of a
\* precedence above max_prec, at any depth of the recursion: in a structure
\* that next, which calls read(1200), yields from a text without brackets,
\* every operator applied has a precedence of at most 1200.
C26_CeilingRespected ==
    BracketFree(input) =>
        \A k \in 1..Len(yielded) :
            yielded[k].ret = "Some" => WithinCeiling(yielded[k].st, parser.ops, 1200)

\* The ceiling holds where no precedence of 0 is decremented: in a build
\* that checks for overflow, and on tables without such operators.
CeilingWithoutWrap ==
    BracketFree(input) /\ (parser.overflow_checks \/ parser.ops # ZeroOps) =>
        \A k \in 1..Len(yielded) :
            yielded[k].ret = "Some" => WithinCeiling(yielded[k].st, parser.ops, 1200)

\* A structure applies an operator of precedence 0 whose operand is read
\* with a ceiling of the precedence less one: FX, XFX or YFX.
AppliesZero(st, ops) ==
    \E i \in 1..Len(st) : \E j \in 1..Len(ops) :
        /\ st[i].s = "Funct" /\ st[i].n >= 1
        /\ ops[j].name = st[i].name
        /\ (st[i].n = 2) = (OpType(ops[j]) = "Infix")
        /\ ops[j].kind \in {"FX", "XFX", "YFX"}
        /\ ops[j].prec = 0

\* The table holds an operator of precedence 0.
HoldsZero(ops) == \E j \in 1..Len(ops) : ops[j].prec = 0

\* C29: whatever the table, operators of precedence 0 included, the parser
\* never computes p - 1 for p = 0: no call of next panics on the
\* subtraction, and no structure yielded from a text without brackets
\* applies an FX, XFX or YFX operator of precedence 0, whose operand's
\* ceiling would be p - 1.
C29_NoPredOfZero ==
    /\ HoldsZero(parser.ops) => \A k \in 1..Len(yielded) : yielded[k].ret # "Panic"
    /\ BracketFree(input) =>
          \A k \in 1..Len(yielded) :
              yielded[k].ret = "Some" => ~AppliesZero(yielded[k].st, parser.ops)

\* What the parser does with p - 1: on tables without a precedence of 0 no
\* call panics; with an FX, XFX or YFX operator of precedence 0 in reach, a
\* build that checks for overflow panics at the first call, and one that
\* does not reads the operand with the largest ceiling there is.
PredOfZeroWraps ==
    /\ ~HoldsZero(parser.ops) => \A k \in 1..Len(yielded) : yielded[k].ret # "Panic"
    /\ \A text \in {"f a.\n", "f g a.\n", "$ a + b.\n"} :
          Fresh(text, ZeroOps) =>
              LET Holds(r) ==
                      IF parser.overflow_checks
                      THEN r.tag = "Panic" /\ r.val = "attempt to subtract with overflow"
                      ELSE r.tag = "Ok" /\ AppliesZero(r.ps.buf, ZeroOps)
              IN  Holds(Read(ClearBuffers(parser), 1200))
    /\ U32Pred(0) = U32Max /\ \A p \in {1, 200, 1200} : U32Pred(p) = p - 1

RECURSIVE Scan(_, _, _)
\* The scan of a postfix term from its i-th symbol on, with depth complete
\* subterms before it: a symbol of arity a finds at least a of them, which
\* it consumes, and makes one; at the end exactly one is left.
Scan(st, i, depth) ==
    LET arity == IF st[i].s = "Funct" THEN st[i].n ELSE 0
    IN  IF i > Len(st) THEN depth = 1
        ELSE depth >= arity /\ Scan(st, i + 1, depth - arity + 1)

\* C27: every structure next yields is a well-formed postfix term, on
\* every input: ill-formed clauses and texts that end behind a prefix
\* operator or an opening parenthesis included.
C27_WellFormedStructures ==
    \A k \in 1..Len(yielded) : yielded[k].ret = "Some" => Scan(yielded[k].st, 1, 0)

\* A structure yielded while the lexer is within the lines of the input is
\* well-formed.
WellFormedWithinInput ==
    /\ yielded # <<>>
    /\ yielded[Len(yielded)].ret = "Some"
    /\ parser.lexer.line <= Len(Lines(input))
    => Scan(yielded[Len(yielded)].st, 1, 0)

\* C28: every call of next returns, and once the input is exhausted, which
\* the first None tells, next returns None.
C28_NextReturns ==
    /\ \A k \in 1..Len(yielded) : yielded[k].ret # "Diverge"
    /\ \A j, k \in 1..Len(yielded) :
          j < k /\ yielded[j].ret = "None" => yielded[k].ret = "None"

\* On a text whose last line is empty the lexer goes on returning None at
\* the end of the input: every call of next returns, and None is final.
NextReturnsAfterEmptyLine ==
    input \in EndsWithEmptyLine =>
        /\ \A k \in 1..Len(yielded) : yielded[k].ret \in {"Some", "None"}
        /\ \A j, k \in 1..Len(yielded) :
              j < k /\ yielded[j].ret = "None" => yielded[k].ret = "None"
        /\ Len(yielded) = MaxNext => yielded[MaxNext].ret = "None"

====
